---- MODULE Spec2Model ----
(***************************************************************************)
(* A model of the remittance / invoice capture tool: the channel          *)
(* classifier, the date and money normalisers, the PDF acquisition        *)
(* pipeline with its OCR fallback and error reporting, and the line-item  *)
(* extractor of the invoice parser.                                        *)
(*                                                                         *)
(* Texts are TLA+ strings.  The JavaScript regular expressions of the     *)
(* source are written as data (sequences of elements) and run by a small  *)
(* backtracking matcher with JavaScript's priorities (leftmost match,     *)
(* greedy and lazy quantifiers, ordered alternation).  Numbers are exact  *)
(* rationals [n, d]; d = 0 stands for the non-finite values (Infinity     *)
(* when n # 0, NaN when n = 0).  Floating-point rounding is not modelled. *)
(***************************************************************************)
EXTENDS Integers, Sequences, FiniteSets, TLC

VARIABLES
  clsFile,      \* classifier: the File handed in ({name, type, size})
  clsPc,        \* classifier: "start", "detected" (detectFileType), "resolved" (resolveKind),
                \*             "validated" / "rejected" (validateFile), "routed" (parseFile after it)
  clsKind,      \* classifier: the kind returned, "" when the call threw
  clsError,     \* classifier: the message of the Error thrown, "" when none
  ndInput,      \* normalizeDate: the value handed in
  ndPc,         \* normalizeDate: "start", "invoice" (InvoiceParser), "remit" (RemittanceParser)
  ndOut,        \* normalizeDate: the string returned
  pdfDoc,       \* capture: the PDF ({pages: per page the text fragments, scan: per page what OCR reads})
  Tesseract,    \* capture: this.Tesseract is set (the OCR library was loaded)
  ocrEngine,    \* capture: "ok", or the message Tesseract.recognize rejects with
  pdfPc,        \* capture: where handleFile / parsePDF / performOCR stands
  pageNum,      \* capture: the loop variable of the running page loop
  fullText,     \* capture: the text accumulated by the running page loop
  textLayer,    \* capture: fullText of parsePDF when the text-layer loop ended
  ocrCalled,    \* capture: performOCR was invoked
  pdfResult,    \* capture: the record parsePDF returned
  pdfError,     \* capture: the message of the Error in flight or caught, "" when none
  shown,        \* capture: the error type showError displayed, "" when none
  state,        \* capture: the application state of the remittance form
  invText,      \* invoice: the text handed to the parser
  invParser,    \* invoice: "enhanced" (EnhancedInvoiceParser) or "basic" (InvoiceParser)
  invPc,        \* invoice: where extractLineItems / intelligentExtract / handleFile stands
  items,        \* invoice: the items array of the running extractLineItems
  itemOrigin,   \* invoice: for each element of items, the strategy that pushed it
  attempted,    \* invoice: the strategies run so far, each with the number of items it pushed
  invResult,    \* invoice: the record intelligentExtract returned
  invState,     \* invoice: the application state of the invoice form
  fldText,      \* fields: the text handed to the parser
  fldParser,    \* fields: "enhanced" (EnhancedInvoiceParser) or "basic" (InvoiceParser)
  fldPc,        \* fields: the statement of intelligentExtract / parseInvoiceText to run next
  fldResult,    \* fields: the result object under construction
  engineDate,   \* fields: what new Date(str).toISOString() yields for a string whose parsing
                \*         is left to the engine ('' when it is an Invalid Date)
  monInput,     \* money: the value handed to parseMoney
  monWhich,     \* money: "parser" (the parsers' parseMoney) or "form" (the form's parseMoney)
  monCurrency,  \* money: the value of the #currency select
  monPc,        \* money: "start", "parsed", "formatted", "reparsed"
  monValue,     \* money: parseMoney(monInput)
  monText,      \* money: fmtMoney(monValue)
  monAgain,     \* money: parseMoney(monText)
  psPage,       \* persistence: "loading" (the module ran, the load event is pending) or "ready"
  psState,      \* persistence: the application state of the remittance form
  autoSaveEnabled,   \* persistence: DataPersistence.autoSaveEnabled
  saveDebounceTimer, \* persistence: "null", "armed" (the callback is pending) or "elapsed"
  localStorage, \* persistence: window.localStorage, for each key the item held (<<>> is null)
  saveRequested, \* persistence: the Record Payment button has been clicked
  capForm,      \* uploads: the form that runs, "part_004" or "part_005"
  capState,     \* uploads: the variable state of that form
  capCall,      \* uploads: for each invocation of handleFile its file, where it stands ("idle",
                \*          "reading", "parsed", "done", "failed"), and parsePDF's p and fullText
  loadedLibraries,  \* loader: LibraryLoader.loadedLibraries
  loadingPromises,  \* loader: LibraryLoader.loadingPromises, for each name the promise held
  loadPromises, \* loader: the promises _loadLibrary returned: their state and the CDN in use
  scripts,      \* loader: the script elements appended, each with its _loadScript promise and timers
  windowGlobal, \* loader: for each name, typeof window[globalName] !== 'undefined'
  loadCall,     \* loader: for each call of load its name, where it stands and the promise it awaits
  dpForm,       \* store: the form of the page, "remittance" or "invoice"
  dpStorage,    \* store: window.localStorage, for each key the item held (<<>> is null)
  dpAutoSave,   \* store: DataPersistence.autoSaveEnabled
  dpTimer,      \* store: the pending callback of saveDebounceTimer with its key and state, else <<>>
  dpRecords,    \* store: the records saveToHistory returned an id for, the latest first
  dpOps,        \* store: the number of calls made, saveToHistory apart
  dpLast,       \* store: the latest call and what it returned
  overlay,      \* indicator: LoadingIndicator.overlay: created, its 'hidden' class, style.display
  hideTimers,   \* indicator: the number of 300 ms timers of hide() whose callback is pending
  ovCall,       \* indicator: for each invocation of handleFile where it stands ("waiting",
                \*            "parsing", "done", "failed", "invalid")
  upForm,       \* rows: the form whose upsertInvoice runs, "part_004" or "part_005"
  upInvoices,   \* rows: state.invoices of that form
  upLast        \* rows: the latest call of upsertInvoice: its id, whether a row had it, and
                \*       the number of rows before the call

clsVars == <<clsFile, clsPc, clsKind, clsError>>
ndVars == <<ndInput, ndPc, ndOut>>
pdfVars == <<pdfDoc, Tesseract, ocrEngine, pdfPc, pageNum, fullText, textLayer, ocrCalled,
             pdfResult, pdfError, shown, state>>
invVars == <<invText, invParser, invPc, items, itemOrigin, attempted, invResult, invState>>
fldVars == <<fldText, fldParser, fldPc, fldResult, engineDate>>
monVars == <<monInput, monWhich, monCurrency, monPc, monValue, monText, monAgain>>
psVars == <<psPage, psState, autoSaveEnabled, saveDebounceTimer, localStorage, saveRequested>>
capVars == <<capForm, capState, capCall>>
llVars == <<loadedLibraries, loadingPromises, loadPromises, scripts, windowGlobal, loadCall>>
dpVars == <<dpForm, dpStorage, dpAutoSave, dpTimer, dpRecords, dpOps, dpLast>>
ovVars == <<overlay, hideTimers, ovCall>>
upVars == <<upForm, upInvoices, upLast>>

-----------------------------------------------------------------------------
(* Strings and characters *)

SetOf(str) == {SubSeq(str, i, i) : i \in 1..Len(str)}

UpperLetters == "ABCDEFGHIJKLMNOPQRSTUVWXYZ"
LowerLetters == "abcdefghijklmnopqrstuvwxyz"
Digits == "0123456789"

Digit == SetOf(Digits)
UpperSet == SetOf(UpperLetters)
LowerSet == SetOf(LowerLetters)
Letter == UpperSet \cup LowerSet
\* \s of a JavaScript regular expression, and the characters trim() strips
Space == {" ", "\n", "\t", "\r"}
Newline == {"\n", "\r"}

LowerMap ==
  [c \in UpperSet |->
     LET i == CHOOSE j \in 1..Len(UpperLetters) : SubSeq(UpperLetters, j, j) = c
     IN SubSeq(LowerLetters, i, i)]
DigitValue ==
  [c \in Digit |-> (CHOOSE j \in 1..Len(Digits) : SubSeq(Digits, j, j) = c) - 1]

LowerChar(c) == IF c \in UpperSet THEN LowerMap[c] ELSE c

\* String.prototype.toLowerCase (the text is halved at each step)
RECURSIVE toLowerCase(_)
toLowerCase(s) ==
  CHOOSE res \in
    {IF Len(str) <= 1 THEN LowerChar(str)
     ELSE toLowerCase(SubSeq(str, 1, Len(str) \div 2)) \o
          toLowerCase(SubSeq(str, Len(str) \div 2 + 1, Len(str))) : str \in {s}} : TRUE

\* String.prototype.toUpperCase (the text is halved at each step)
RECURSIVE toUpperCase(_)
toUpperCase(s) ==
  IF Len(s) <= 1
  THEN IF s \in LowerSet
       THEN LET i == CHOOSE j \in 1..Len(LowerLetters) : SubSeq(LowerLetters, j, j) = s
            IN SubSeq(UpperLetters, i, i)
       ELSE s
  ELSE toUpperCase(SubSeq(s, 1, Len(s) \div 2)) \o toUpperCase(SubSeq(s, Len(s) \div 2 + 1, Len(s)))

CharAt(s, i) == IF i >= 1 /\ i <= Len(s) THEN SubSeq(s, i, i) ELSE ""

\* String.prototype.includes
includes(s, k) ==
  \E str \in {s} : \E i \in 1..(Len(str) - Len(k) + 1) : SubSeq(str, i, i + Len(k) - 1) = k

\* String.prototype.startsWith
startsWith(s, k) == Len(k) <= Len(s) /\ SubSeq(s, 1, Len(k)) = k

RECURSIVE TrimStart(_)
TrimStart(s) ==
  IF s # "" /\ SubSeq(s, 1, 1) \in Space THEN TrimStart(SubSeq(s, 2, Len(s))) ELSE s

RECURSIVE TrimEnd(_)
TrimEnd(s) ==
  IF s # "" /\ SubSeq(s, Len(s), Len(s)) \in Space THEN TrimEnd(SubSeq(s, 1, Len(s) - 1)) ELSE s

\* String.prototype.trim
trim(s) == TrimEnd(TrimStart(s))

\* the element of a one-element set: The({e : x \in {v}}) is e with x bound
\* to the value v
The(S) == CHOOSE x \in S : TRUE

\* String.prototype.padStart(n, "0")
RECURSIVE padStart(_, _)
padStart(s, n) == IF Len(s) >= n THEN s ELSE padStart("0" \o s, n)

\* the index of the last "." of s, 0 when there is none
RECURSIVE LastDot(_, _)
LastDot(s, i) == IF i = 0 THEN 0 ELSE IF SubSeq(s, i, i) = "." THEN i ELSE LastDot(s, i - 1)

\* parseInt of a string of decimal digits
RECURSIVE ParseDigits(_)
ParseDigits(s) ==
  IF s = "" THEN 0
  ELSE 10 * ParseDigits(SubSeq(s, 1, Len(s) - 1)) + DigitValue[SubSeq(s, Len(s), Len(s))]

\* the first index in lo..hi whose character is outside the class, hi + 1 when none
RECURSIVE FirstOutside(_, _, _, _, _)
FirstOutside(str, lo, hi, set, neg) ==
  IF lo > hi THEN lo
  ELSE IF lo = hi THEN (IF (SubSeq(str, lo, lo) \in set) = neg THEN lo ELSE lo + 1)
  ELSE LET mid == (lo + hi) \div 2
           l == FirstOutside(str, lo, mid, set, neg)
       IN IF l <= mid THEN l ELSE FirstOutside(str, mid + 1, hi, set, neg)
\* how many characters from pos on are in the class, at most max (-1: no maximum)
Run(str, pos, set, neg, max) ==
  LET hi == IF max < 0 \/ pos + max - 1 > Len(str) THEN Len(str) ELSE pos + max - 1
  IN FirstOutside(str, pos, hi, set, neg) - pos

\* s repeated n times
RECURSIVE Repeat(_, _)
Repeat(s, n) ==
  IF n = 0 THEN "" ELSE IF n = 1 THEN s ELSE Repeat(s, n \div 2) \o Repeat(s, n - n \div 2)

-----------------------------------------------------------------------------
(* Numbers: JavaScript numbers as exact rationals *)

Abs(x) == IF x < 0 THEN -x ELSE x
Sign(x) == IF x < 0 THEN -1 ELSE IF x > 0 THEN 1 ELSE 0
RECURSIVE GCD(_, _)
GCD(a, b) == IF b = 0 THEN a ELSE GCD(b, a % b)
RECURSIVE Pow10(_)
Pow10(k) == IF k = 0 THEN 1 ELSE 10 * Pow10(k - 1)

Rat(n, d) ==
  IF d = 0 THEN [n |-> Sign(n), d |-> 0]
  ELSE LET g == GCD(Abs(n), Abs(d))
       IN [n |-> (Sign(d) * n) \div g, d |-> Abs(d) \div g]
Int2Num(i) == [n |-> i, d |-> 1]
Zero == [n |-> 0, d |-> 1]
NaN == [n |-> 0, d |-> 0]
\* the value of a property that was never set
Undefined == [n |-> 0, d |-> -1]

isNaN(a) == a.d = 0 /\ a.n = 0
isFinite(a) == a.d > 0
\* !a for a number: 0 and NaN are falsy, undefined too
Falsy(a) == a.n = 0
Add(a, b) ==
  IF a.d = 0 /\ b.d = 0 THEN (IF a = b THEN a ELSE NaN)
  ELSE Rat(a.n * b.d + b.n * a.d, a.d * b.d)
Neg(a) == [n |-> -a.n, d |-> a.d]
Sub(a, b) == Add(a, Neg(b))
Mul(a, b) == Rat(a.n * b.n, a.d * b.d)
Div(a, b) ==
  IF b.d = 0 THEN (IF a.d = 0 \/ b.n = 0 THEN NaN ELSE Zero)
  ELSE IF b.n = 0 THEN Rat(a.n, 0)
  ELSE Mul(a, Rat(b.d, b.n))
Less(a, b) == ~isNaN(a) /\ ~isNaN(b) /\ a # b /\ a.n * b.d < b.n * a.d
Leq(a, b) == ~isNaN(a) /\ ~isNaN(b) /\ (a = b \/ a.n * b.d < b.n * a.d)
\* Math.abs, Math.max
MathAbs(a) == [n |-> Abs(a.n), d |-> a.d]
MathMax(a, b) == IF isNaN(a) \/ isNaN(b) THEN NaN ELSE IF Less(a, b) THEN b ELSE a

\* parseFloat: the longest decimal-literal prefix (no exponent), NaN when none
parseFloat(str) ==
  LET s == TrimStart(str)
      neg == Len(s) > 0 /\ SubSeq(s, 1, 1) = "-"
      p == IF Len(s) > 0 /\ SubSeq(s, 1, 1) \in {"-", "+"} THEN 2 ELSE 1
      intLen == Run(s, p, Digit, FALSE, -1)
      hasDot == SubSeq(s, p + intLen, p + intLen) = "."
      fracLen == IF p + intLen <= Len(s) /\ hasDot THEN Run(s, p + intLen + 1, Digit, FALSE, -1) ELSE 0
      int == ParseDigits(SubSeq(s, p, p + intLen - 1))
      frac == ParseDigits(SubSeq(s, p + intLen + 1, p + intLen + fracLen))
      mag == Rat(int * Pow10(fracLen) + frac, Pow10(fracLen))
  IN IF intLen = 0 /\ fracLen = 0 THEN NaN ELSE IF neg THEN Neg(mag) ELSE mag

\* str.replace(/[$,]/g, '')
RECURSIVE StripDollarComma(_)
StripDollarComma(s) ==
  IF Len(s) <= 1 THEN (IF s \in {"$", ","} THEN "" ELSE s)
  ELSE StripDollarComma(SubSeq(s, 1, Len(s) \div 2)) \o
       StripDollarComma(SubSeq(s, Len(s) \div 2 + 1, Len(s)))

\* RemittanceParser.parseMoney of a string (InvoiceParser and
\* EnhancedInvoiceParser carry the same body)
parseMoney(value) ==
  IF value = "" THEN Zero
  ELSE LET num == parseFloat(trim(StripDollarComma(value)))
       IN IF isNaN(num) THEN Zero ELSE num

-----------------------------------------------------------------------------
(* Regular expressions: RegExp.prototype.exec / String.prototype.match.   *)
(* A pattern is a sequence of elements: a literal, a quantified character  *)
(* class, an ordered alternation of sub-patterns, a capture-group bracket, *)
(* ^ or $.  A maximum of -1 means "unbounded".                              *)

Lit(s) == [t |-> "lit", s |-> s]
Cls(set, min, max) == [t |-> "cls", set |-> set, neg |-> FALSE, min |-> min, max |-> max, lazy |-> FALSE]
ClsLazy(set, min, max) == [t |-> "cls", set |-> set, neg |-> FALSE, min |-> min, max |-> max, lazy |-> TRUE]
NotCls(set, min, max) == [t |-> "cls", set |-> set, neg |-> TRUE, min |-> min, max |-> max, lazy |-> FALSE]
NotClsLazy(set, min, max) == [t |-> "cls", set |-> set, neg |-> TRUE, min |-> min, max |-> max, lazy |-> TRUE]
Open(g) == [t |-> "open", g |-> g]
Close(g) == [t |-> "close", g |-> g]
Alt(subs) == [t |-> "alt", subs |-> subs]
Opt(sub) == Alt(<<sub, <<>>>>)
Bol(m) == [t |-> "bol", m |-> m]
Eol(m) == [t |-> "eol", m |-> m]
\* (?=sub)
Look(sub) == [t |-> "look", sub |-> sub]
\* \b
Wb == [t |-> "wb"]

\* the i flag: the pattern is lowered and matched against the lowered text
LowerEl(el) ==
  CASE el.t = "lit" -> [el EXCEPT !.s = toLowerCase(el.s)]
    [] el.t = "cls" -> [el EXCEPT !.set = {LowerChar(c) : c \in el.set}]
    [] OTHER -> el
RECURSIVE IgnoreCase(_)
IgnoreCase(re) ==
  [k \in 1..Len(re) |->
     IF re[k].t = "alt"
     THEN Alt([j \in 1..Len(re[k].subs) |-> IgnoreCase(re[k].subs[j])])
     ELSE IF re[k].t = "look" THEN Look(IgnoreCase(re[k].sub))
     ELSE LowerEl(re[k])]

NoCaps == [g \in 1..6 |-> <<0, 0>>]
NoMatch == [ok |-> FALSE, start |-> 0, end |-> 0, caps |-> NoCaps]

RECURSIVE MatchAt(_, _, _, _), TryCounts(_, _, _, _, _, _, _), TryAlts(_, _, _, _, _, _)
\* the first way, in backtracking order, to match re at pos
MatchAt(re, str, pos, caps) ==
  IF re = <<>> THEN [ok |-> TRUE, start |-> 0, end |-> pos, caps |-> caps]
  ELSE LET el == Head(re)
           rest == Tail(re)
       IN CASE el.t = "lit" ->
                 IF pos + Len(el.s) - 1 <= Len(str) /\ SubSeq(str, pos, pos + Len(el.s) - 1) = el.s
                 THEN MatchAt(rest, str, pos + Len(el.s), caps)
                 ELSE NoMatch
            [] el.t = "cls" ->
                 LET avail == Run(str, pos, el.set, el.neg, el.max)
                 IN IF avail < el.min THEN NoMatch
                    ELSE TryCounts(rest, str, pos, caps, el.min, avail, el.lazy)
            [] el.t = "open" ->
                 MatchAt(rest, str, pos, [caps EXCEPT ![el.g] = <<pos, 0>>])
            [] el.t = "close" ->
                 MatchAt(rest, str, pos, [caps EXCEPT ![el.g] = <<caps[el.g][1], pos - 1>>])
            [] el.t = "alt" -> TryAlts(el.subs, 1, rest, str, pos, caps)
            [] el.t = "look" ->
                 IF MatchAt(el.sub, str, pos, caps).ok
                 THEN MatchAt(rest, str, pos, caps)
                 ELSE NoMatch
            [] el.t = "wb" ->
                 IF (CharAt(str, pos - 1) \in Letter \cup Digit \cup {"_"})
                    # (CharAt(str, pos) \in Letter \cup Digit \cup {"_"})
                 THEN MatchAt(rest, str, pos, caps)
                 ELSE NoMatch
            [] el.t = "bol" ->
                 IF pos = 1 \/ (el.m /\ CharAt(str, pos - 1) \in Newline)
                 THEN MatchAt(rest, str, pos, caps)
                 ELSE NoMatch
            [] el.t = "eol" ->
                 IF pos = Len(str) + 1 \/ (el.m /\ CharAt(str, pos) \in Newline)
                 THEN MatchAt(rest, str, pos, caps)
                 ELSE NoMatch
\* the class takes lo..hi characters: the fewest first when lazy, the most first when greedy
\* (the first attempt r is bound as the member of a singleton, so it is evaluated once)
TryCounts(rest, str, pos, caps, lo, hi, lazy) ==
  IF lo = hi THEN MatchAt(rest, str, pos + lo, caps)
  ELSE LET mid == (lo + hi) \div 2
       IN CHOOSE res \in
            {IF r.ok THEN r
             ELSE IF lazy THEN TryCounts(rest, str, pos, caps, mid + 1, hi, lazy)
             ELSE TryCounts(rest, str, pos, caps, lo, mid, lazy) :
               r \in {IF lazy THEN TryCounts(rest, str, pos, caps, lo, mid, lazy)
                      ELSE TryCounts(rest, str, pos, caps, mid + 1, hi, lazy)}} : TRUE
TryAlts(subs, k, rest, str, pos, caps) ==
  IF k > Len(subs) THEN NoMatch
  ELSE CHOOSE res \in
         {IF r.ok THEN r ELSE TryAlts(subs, k + 1, rest, str, pos, caps) :
            r \in {MatchAt(subs[k] \o rest, str, pos, caps)}} : TRUE

\* the match of re in str that starts at the least position of lo..hi
RECURSIVE FirstMatch(_, _, _, _)
FirstMatch(re, str, lo, hi) ==
  IF lo = hi
  THEN CHOOSE res \in
         {IF r.ok THEN [r EXCEPT !.start = lo] ELSE NoMatch :
            r \in {MatchAt(re, str, lo, NoCaps)}} : TRUE
  ELSE CHOOSE res \in
         {IF r.ok THEN r ELSE FirstMatch(re, str, (lo + hi) \div 2 + 1, hi) :
            r \in {FirstMatch(re, str, lo, (lo + hi) \div 2)}} : TRUE
\* the leftmost match of re in str that starts at from or later (the pattern and the
\* text are bound as members of singletons, so they are evaluated once)
exec(re, str, from) ==
  CHOOSE res \in
    {IF from > Len(s) + 1 THEN NoMatch ELSE FirstMatch(r, s, from, Len(s) + 1) :
       r \in {re}, s \in {str}} : TRUE

\* every match of a pattern with the g flag, as the loop
\* while ((match = pattern.exec(text)) !== null) sees them
RECURSIVE execAll(_, _, _)
execAll(re, str, from) ==
  CHOOSE res \in
    {IF ~m.ok THEN <<>>
     ELSE <<m>> \o execAll(re, str, IF m.end = m.start THEN m.end + 1 ELSE m.end) :
       m \in {exec(re, str, from)}} : TRUE

\* str.match(re) for a pattern without the g flag
match(re, str) == exec(re, str, 1)
\* the same for a pattern with the i flag (re is already IgnoreCase'd)
matchI(re, str) == exec(re, toLowerCase(str), 1)

\* the text of capture group g of match m in str ("" when the group did not take part)
Group(str, m, g) ==
  IF m.caps[g][1] = 0 THEN "" ELSE SubSeq(str, m.caps[g][1], m.caps[g][2])
\* match[0]
Whole(str, m) == SubSeq(str, m.start, m.end - 1)

-----------------------------------------------------------------------------
(* Channel classifier *)

\* getExtension(filename): (filename || '').split('.').pop().toLowerCase()
getExtension(filename) ==
  toLowerCase(SubSeq(filename, LastDot(filename, Len(filename)) + 1, Len(filename)))

Threw(msg) == [ok |-> FALSE, kind |-> "", error |-> msg]
Returned(kind) == [ok |-> TRUE, kind |-> kind, error |-> ""]

\* RemittanceParser.detectFileType (InvoiceParser and EnhancedInvoiceParser
\* carry the same body)
detectFileType(file, ext) ==
  LET mime == toLowerCase(file.type)
  IN IF ext = "pdf" \/ mime = "application/pdf" THEN Returned("pdf")
     ELSE IF ext \in {"xlsx", "xls"} \/ includes(mime, "spreadsheet") \/ includes(mime, "excel")
          THEN Returned("xlsx")
     ELSE IF ext = "csv" \/ mime = "text/csv" THEN Returned("csv")
     ELSE Threw("Unknown file type")

\* DocumentProcessor.resolveKind
resolveKind(file) ==
  LET ext == getExtension(file.name)
      mime == toLowerCase(file.type)
  IN IF ext \in {"xlsx", "xls", "csv"}
     THEN Threw("Spreadsheet capture is not available. Export the file as a PDF or image and retry.")
     ELSE IF ext = "pdf" \/ mime = "application/pdf" THEN Returned("pdf")
     ELSE IF startsWith(mime, "image/") \/ ext \in {"png", "jpg", "jpeg", "heic", "heif"}
          THEN Returned("image")
     ELSE IF ext \in {"eml", "msg", "txt", "html"} \/ startsWith(mime, "text/") THEN Returned("text")
     ELSE Returned("text")

\* MAX_FILE_SIZE, ALLOWED_EXTENSIONS, ALLOWED_MIME_TYPES of validateFile
MAX_FILE_SIZE == 10 * 1024 * 1024
ALLOWED_EXTENSIONS == {"pdf", "xlsx", "xls", "csv", "png", "jpg", "jpeg"}
ALLOWED_MIME_TYPES ==
  {"application/pdf", "application/vnd.openxmlformats-officedocument.spreadsheetml.sheet",
   "application/vnd.ms-excel", "text/csv", "image/png", "image/jpeg", "image/jpg",
   "application/octet-stream"}

FileNames ==
  {"remit.pdf", "REMIT.PDF", "data.xlsx", "data.xls", "data.csv", "scan.png", "photo.jpg",
   "page.jpeg", "mail.eml", "mail.msg", "notes.txt", "archive.zip", "remittance"}
MimeTypes ==
  {"", "application/pdf", "application/vnd.openxmlformats-officedocument.spreadsheetml.sheet",
   "application/vnd.ms-excel", "text/csv", "text/plain", "image/png", "image/jpeg",
   "application/octet-stream", "application/zip"}

\* file.size: small, the largest validateFile takes, one byte more
FileSizes == {1024, MAX_FILE_SIZE, MAX_FILE_SIZE + 1}

\* validateFile(file): returns true or throws a UserFriendlyError
validateFile(file) ==
  IF file.size > MAX_FILE_SIZE THEN Threw("File is too large to process")
  ELSE LET hasExtension == includes(file.name, ".")
           extensionValid == hasExtension /\ getExtension(file.name) \in ALLOWED_EXTENSIONS
           mimeValid == file.type # "" /\ file.type \in ALLOWED_MIME_TYPES
       IN IF ~extensionValid /\ ~mimeValid THEN Threw("File type is not supported")
          ELSE Returned("")

ClsInit ==
  /\ clsFile \in [name : FileNames, type : MimeTypes, size : FileSizes]
  /\ clsPc = "start"
  /\ clsKind = ""
  /\ clsError = ""

\* parseFile: const ext = this.getExtension(file.name); this.detectFileType(file, ext)
DetectFileType ==
  /\ clsPc = "start"
  /\ LET r == detectFileType(clsFile, getExtension(clsFile.name))
     IN /\ clsKind' = r.kind
        /\ clsError' = r.error
  /\ clsPc' = "detected"
  /\ UNCHANGED clsFile
  /\ UNCHANGED <<ndVars, pdfVars, invVars, fldVars, monVars, psVars, capVars, llVars, dpVars, ovVars, upVars>>

\* DocumentProcessor.process: const meta = this.resolveKind(file, docHint)
ResolveKind ==
  /\ clsPc = "start"
  /\ LET r == resolveKind(clsFile)
     IN /\ clsKind' = r.kind
        /\ clsError' = r.error
  /\ clsPc' = "resolved"
  /\ UNCHANGED clsFile
  /\ UNCHANGED <<ndVars, pdfVars, invVars, fldVars, monVars, psVars, capVars, llVars, dpVars, ovVars, upVars>>

\* handleFile of the remittance form: validateFile(f)
HandleFile_Validate ==
  /\ clsPc = "start"
  /\ LET r == validateFile(clsFile)
     IN /\ clsPc' = IF r.ok THEN "validated" ELSE "rejected"
        /\ clsError' = r.error
  /\ UNCHANGED <<clsFile, clsKind>>
  /\ UNCHANGED <<ndVars, pdfVars, invVars, fldVars, monVars, psVars, capVars, llVars, dpVars, ovVars, upVars>>

\* handleFile of the remittance form: parser.parseFile(f) up to detectFileType
HandleFile_ParseFile ==
  /\ clsPc = "validated"
  /\ LET r == detectFileType(clsFile, getExtension(clsFile.name))
     IN /\ clsKind' = r.kind
        /\ clsError' = r.error
  /\ clsPc' = "routed"
  /\ UNCHANGED clsFile
  /\ UNCHANGED <<ndVars, pdfVars, invVars, fldVars, monVars, psVars, capVars, llVars, dpVars, ovVars, upVars>>

ClsIdle == clsFile = [name |-> "", type |-> "", size |-> 0] /\ clsPc = "idle" /\ clsKind = "" /\ clsError = ""

-----------------------------------------------------------------------------
(* normalizeDate *)

StrVal(s) == [t |-> "string", s |-> s, n |-> 0]
NumVal(n) == [t |-> "number", s |-> "", n |-> n]

\* /(\d{1,2})([A-Za-z]{3})(\d{2})/i
ReDdMmmYy ==
  IgnoreCase(<<Open(1), Cls(Digit, 1, 2), Close(1), Open(2), Cls(Letter, 3, 3), Close(2),
               Open(3), Cls(Digit, 2, 2), Close(3)>>)
\* /(\d{1,2})[\/\-](\d{1,2})[\/\-](\d{2,4})/
ReMdy ==
  <<Open(1), Cls(Digit, 1, 2), Close(1), Cls({"/", "-"}, 1, 1), Open(2), Cls(Digit, 1, 2), Close(2),
    Cls({"/", "-"}, 1, 1), Open(3), Cls(Digit, 2, 4), Close(3)>>
\* /(\d{4})[\/\-](\d{1,2})[\/\-](\d{1,2})/
ReYmd ==
  <<Open(1), Cls(Digit, 4, 4), Close(1), Cls({"/", "-"}, 1, 1), Open(2), Cls(Digit, 1, 2), Close(2),
    Cls({"/", "-"}, 1, 1), Open(3), Cls(Digit, 1, 2), Close(3)>>

monthMap ==
  [m \in {"jan", "feb", "mar", "apr", "may", "jun", "jul", "aug", "sep", "oct", "nov", "dec"} |->
     CASE m = "jan" -> "01" [] m = "feb" -> "02" [] m = "mar" -> "03" [] m = "apr" -> "04"
       [] m = "may" -> "05" [] m = "jun" -> "06" [] m = "jul" -> "07" [] m = "aug" -> "08"
       [] m = "sep" -> "09" [] m = "oct" -> "10" [] m = "nov" -> "11" [] m = "dec" -> "12"]

\* year = parseInt(year) > 50 ? '19' + year : '20' + year
ExpandYear(year) == IF ParseDigits(year) > 50 THEN "19" \o year ELSE "20" \o year

\* new Date(ms).toISOString().split('T')[0] for a whole number of days since
\* 1970-01-01 (the proleptic Gregorian calendar)
IsoOfDays(days) ==
  LET z == days + 719468
      era == z \div 146097
      doe == z - era * 146097
      yoe == (doe - doe \div 1460 + doe \div 36524 - doe \div 146096) \div 365
      doy == doe - (365 * yoe + yoe \div 4 - yoe \div 100)
      mp == (5 * doy + 2) \div 153
      d == doy - (153 * mp + 2) \div 5 + 1
      m == IF mp < 10 THEN mp + 3 ELSE mp - 9
      y == yoe + era * 400 + (IF m <= 2 THEN 1 ELSE 0)
  IN padStart(ToString(y), 4) \o "-" \o padStart(ToString(m), 2) \o "-" \o padStart(ToString(d), 2)

\* new Date((value - 25569) * 86400 * 1000).toISOString().split('T')[0]
ExcelSerialToIso(n) == IsoOfDays(n - 25569)

\* new Date(str) followed by toISOString().split('T')[0]: a string without a
\* digit is an Invalid Date and yields ''.  What the engine makes of other
\* strings is implementation-defined: engineDate holds its answer.
DateConstructor(str) ==
  IF \E i \in 1..Len(str) : SubSeq(str, i, i) \in Digit THEN engineDate ELSE ""

\* the tail shared by every normalizeDate: MM/DD/YYYY, YYYY-MM-DD, new Date
NormalizeTail(str) ==
  The({IF mdy.ok
       THEN LET month == Group(str, mdy, 1)
                day == Group(str, mdy, 2)
                y == Group(str, mdy, 3)
                year == IF Len(y) = 2 THEN ExpandYear(y) ELSE y
            IN padStart(year, 4) \o "-" \o padStart(month, 2) \o "-" \o padStart(day, 2)
       ELSE IF ymd.ok
       THEN Group(str, ymd, 1) \o "-" \o padStart(Group(str, ymd, 2), 2) \o "-" \o
            padStart(Group(str, ymd, 3), 2)
       ELSE DateConstructor(str) :
         mdy \in {match(ReMdy, str)}, ymd \in {match(ReYmd, str)}})

\* RemittanceParser.normalizeDate (EnhancedInvoiceParser carries the same body)
RemittanceParser_normalizeDate(value) ==
  IF (value.t = "string" /\ value.s = "") \/ (value.t = "number" /\ value.n = 0) THEN ""
  ELSE IF value.t = "number" /\ value.n > 40000 THEN ExcelSerialToIso(value.n)
  ELSE LET str == trim(IF value.t = "number" THEN ToString(value.n) ELSE value.s)
       IN NormalizeTail(str)

\* InvoiceParser.normalizeDate
InvoiceParser_normalizeDate(value) ==
  IF (value.t = "string" /\ value.s = "") \/ (value.t = "number" /\ value.n = 0) THEN ""
  ELSE IF value.t = "number" /\ value.n > 40000 THEN ExcelSerialToIso(value.n)
  ELSE LET str == trim(IF value.t = "number" THEN ToString(value.n) ELSE value.s)
       IN The({LET mon == toLowerCase(Group(str, ddmmmyy, 2))
               IN IF ddmmmyy.ok /\ mon \in DOMAIN monthMap
                  THEN ExpandYear(Group(str, ddmmmyy, 3)) \o "-" \o monthMap[mon] \o "-" \o
                       padStart(Group(str, ddmmmyy, 1), 2)
                  ELSE NormalizeTail(str) :
                 ddmmmyy \in {matchI(ReDdMmmYy, str)}})

SlashDates ==
  {m \o sep \o d \o sep \o y :
     m \in {"1", "01", "12", "13"}, d \in {"2", "31", "45"}, sep \in {"/", "-"},
     y \in {"99", "25", "2024"}}
\* values every normalizeDate is handed: captured dates, cells, serial numbers
DateInputs ==
  {StrVal(s) : s \in SlashDates \cup
     {"", "abc", "n/a", "2024-01-02", "2024-1-2", "2024/12/31", "2023-13-5", " 01/02/2024 ",
      "Due 02/29/2023"}}
  \cup {NumVal(n) : n \in {0, 40001, 45000, 45291, 45351}}
\* day-month-abbreviation-year tokens, which only InvoiceParser's patterns capture
DdMmmYyInputs == {StrVal(s) : s \in {"02Oct25", "2oct25", "31DEC99", "45Oct25", "01Nov51"}}

NdInit ==
  /\ ndInput \in DateInputs \cup DdMmmYyInputs
  /\ ndPc = "start"
  /\ ndOut = ""

\* result.invoiceDate = this.normalizeDate(match[1]) in InvoiceParser
NormalizeDateInvoice ==
  /\ ndPc = "start"
  /\ ndOut' = InvoiceParser_normalizeDate(ndInput)
  /\ ndPc' = "invoice"
  /\ UNCHANGED ndInput
  /\ UNCHANGED <<clsVars, pdfVars, invVars, fldVars, monVars, psVars, capVars, llVars, dpVars, ovVars, upVars>>

\* result.paymentDate = this.normalizeDate(dateMatch[1]) in RemittanceParser
NormalizeDateRemit ==
  /\ ndPc = "start"
  /\ ndInput \in DateInputs
  /\ ndOut' = RemittanceParser_normalizeDate(ndInput)
  /\ ndPc' = "remit"
  /\ UNCHANGED ndInput
  /\ UNCHANGED <<clsVars, pdfVars, invVars, fldVars, monVars, psVars, capVars, llVars, dpVars, ovVars, upVars>>

NdIdle == ndInput = StrVal("") /\ ndPc = "idle" /\ ndOut = ""

-----------------------------------------------------------------------------
(* RemittanceParser: the PDF parsers *)

\* \s+ , \s* , \$? and [\d,]+\.\d{2} as they recur in the patterns
Ws1 == Cls(Space, 1, -1)
Ws0 == Cls(Space, 0, -1)
OptDollar == Cls({"$"}, 0, 1)
DigitComma == Digit \cup {","}
Money(g) == <<Open(g), Cls(DigitComma, 1, -1), Lit("."), Cls(Digit, 2, 2), Close(g)>>
\* \d{2}\/\d{2}\/\d{n,m}
SlashDate(g, n, m) ==
  <<Open(g), Cls(Digit, 2, 2), Lit("/"), Cls(Digit, 2, 2), Lit("/"), Cls(Digit, n, m), Close(g)>>
AlnumDash == UpperSet \cup Digit \cup {"-"}
NameChars == Letter \cup Digit \cup Space \cup {"&", ",", ".", "'", "-"}

EmptyResult(vendor) ==
  [paymentNumber |-> "", paymentDate |-> "", vendor |-> vendor, customer |-> "", invoices |-> <<>>]
\* an entry of result.invoices; properties a parser does not set are
\* Undefined (numbers) or "" (strings)
Invoice(invoice, date, amount, discount, paidAmount, originalAmount, coopDiscount, notes) ==
  [invoice |-> invoice, date |-> date, amount |-> amount, discount |-> discount,
   paidAmount |-> paidAmount, originalAmount |-> originalAmount, coopDiscount |-> coopDiscount,
   notes |-> notes]

\* the signatures are tested in the order orw, turn5, meyer
detectPDFFormat_LastFirst(text) ==
  LET lower == toLowerCase(text)
  IN IF includes(lower, "orw usa") THEN "orw"
     ELSE IF includes(lower, "turn 5") THEN "turn5"
     ELSE IF includes(lower, "meyer") /\ includes(lower, "distributing") THEN "meyer"
     ELSE "generic"

\* RemittanceParser.detectPDFFormat
detectPDFFormat(text) ==
  LET lower == toLowerCase(text)
  IN IF includes(lower, "meyer") /\ includes(lower, "distributing") THEN "meyer"
     ELSE IF includes(lower, "turn 5") THEN "turn5"
     ELSE IF includes(lower, "orw usa") THEN "orw"
     ELSE "generic"

\* /Payment\s+(?:Number|#)[\s:]+([A-Z0-9-]+)/i and its three siblings
paymentPatterns ==
  <<IgnoreCase(<<Lit("Payment"), Ws1, Alt(<<<<Lit("Number")>>, <<Lit("#")>>>>),
                 Cls(Space \cup {":"}, 1, -1), Open(1), Cls(AlnumDash, 1, -1), Close(1)>>),
    IgnoreCase(<<Lit("Check"), Ws1, Alt(<<<<Lit("Number")>>, <<Lit("#")>>>>),
                 Cls(Space \cup {":"}, 1, -1), Open(1), Cls(AlnumDash, 1, -1), Close(1)>>),
    IgnoreCase(<<Lit("EFT"), Cls(Space \cup {"#"}, 0, -1), Open(1), Cls(Digit, 1, -1), Close(1)>>),
    IgnoreCase(<<Lit("Reference"), Cls(Space \cup {":"}, 1, -1), Open(1), Cls(AlnumDash, 1, -1),
                 Close(1)>>)>>
\* /(\d{1,2}[-\/]\d{1,2}[-\/]\d{2,4})/
ReGenericDate ==
  <<Open(1), Cls(Digit, 1, 2), Cls({"/", "-"}, 1, 1), Cls(Digit, 1, 2), Cls({"/", "-"}, 1, 1),
    Cls(Digit, 2, 4), Close(1)>>
\* /(?:Invoice|Inv)[\s#:]*(\d{4,})[^\d]*?([\d,]+\.\d{2})/gi
ReGenericInvoice ==
  IgnoreCase(<<Alt(<<<<Lit("Invoice")>>, <<Lit("Inv")>>>>), Cls(Space \cup {"#", ":"}, 0, -1),
               Open(1), Cls(Digit, 4, -1), Close(1), NotClsLazy(Digit, 0, -1)>> \o Money(2))

\* the first pattern of paymentPatterns that matches decides
RECURSIVE FirstPaymentNumber(_, _)
FirstPaymentNumber(text, k) ==
  IF k > Len(paymentPatterns) THEN ""
  ELSE LET m == matchI(paymentPatterns[k], text)
       IN IF m.ok THEN Group(text, m, 1) ELSE FirstPaymentNumber(text, k + 1)

parseGenericPDF(text) ==
  LET dateMatch == match(ReGenericDate, text)
      ms == execAll(ReGenericInvoice, toLowerCase(text), 1)
  IN [EmptyResult("") EXCEPT
        !.paymentNumber = FirstPaymentNumber(text, 1),
        !.paymentDate =
          IF dateMatch.ok THEN RemittanceParser_normalizeDate(StrVal(Group(text, dateMatch, 1)))
          ELSE "",
        !.invoices =
          [k \in 1..Len(ms) |->
             Invoice(Group(text, ms[k], 1), "", parseMoney(Group(text, ms[k], 2)), Undefined,
                     parseMoney(Group(text, ms[k], 2)), Undefined, Undefined, "")]]

\* /EFT\d{12}/
ReMeyerPayment == <<Lit("EFT"), Cls(Digit, 12, 12)>>
\* /Payment Date[\s\S]*?(\d{2}\/\d{2}\/\d{4})/
ReMeyerDate == <<Lit("Payment Date"), NotClsLazy({}, 0, -1)>> \o SlashDate(1, 4, 4)
\* /Vendor Name\s+([A-Za-z0-9\s&,.'-]+?)(?=\s+Vendor ID|Payment Number)/
ReMeyerCustomer ==
  <<Lit("Vendor Name"), Ws1, Open(1), ClsLazy(NameChars, 1, -1), Close(1),
    Look(<<Alt(<<<<Ws1, Lit("Vendor ID")>>, <<Lit("Payment Number")>>>>)>>)>>
\* /(\d{5})\s+(\d{2}\/\d{2}\/\d{4})\s+(?:.*?)\s+\$?([\d,]+\.\d{2})\s+\$?([\d,]+\.\d{2})\s+\$?([\d,]+\.\d{2})/g
ReMeyerInvoice ==
  <<Open(1), Cls(Digit, 5, 5), Close(1), Ws1>> \o SlashDate(2, 4, 4) \o
  <<Ws1, NotClsLazy(Newline, 0, -1), Ws1, OptDollar>> \o Money(3) \o <<Ws1, OptDollar>> \o
  Money(4) \o <<Ws1, OptDollar>> \o Money(5)
\* new RegExp(`${invoiceNum}[\\s\\S]{0,200}?short pay.*?\\$([\\.\\d,]+).*?co-?op`, 'i')
notePattern(invoiceNum) ==
  IgnoreCase(<<Lit(invoiceNum), NotClsLazy({}, 0, 200), Lit("short pay"),
               NotClsLazy(Newline, 0, -1), Lit("$"), Open(1), Cls(DigitComma \cup {"."}, 1, -1),
               Close(1), NotClsLazy(Newline, 0, -1), Lit("co"), Cls({"-"}, 0, 1), Lit("op")>>)

parseMeyerPDF(text) ==
  LET paymentMatch == match(ReMeyerPayment, text)
      dateMatch == match(ReMeyerDate, text)
      customerMatch == match(ReMeyerCustomer, text)
      ms == execAll(ReMeyerInvoice, text, 1)
      Row(m) ==
        LET invoiceNum == Group(text, m, 1)
            noteMatch == matchI(notePattern(invoiceNum), text)
            amount == parseMoney(Group(text, m, 3))
            coop == parseMoney(Group(text, noteMatch, 1))
        IN Invoice(invoiceNum, RemittanceParser_normalizeDate(StrVal(Group(text, m, 2))), amount,
                   parseMoney(Group(text, m, 4)), parseMoney(Group(text, m, 5)),
                   IF noteMatch.ok THEN Add(amount, coop) ELSE amount,
                   IF noteMatch.ok THEN coop ELSE Undefined,
                   IF noteMatch.ok THEN trim(Whole(text, noteMatch)) ELSE "")
  IN [EmptyResult("Meyer Distributing") EXCEPT
        !.paymentNumber = IF paymentMatch.ok THEN Whole(text, paymentMatch) ELSE "",
        !.paymentDate =
          IF dateMatch.ok THEN RemittanceParser_normalizeDate(StrVal(Group(text, dateMatch, 1)))
          ELSE "",
        !.customer = IF customerMatch.ok THEN trim(Group(text, customerMatch, 1)) ELSE "",
        !.invoices = [k \in 1..Len(ms) |-> Row(ms[k])]]

\* /Check Number\s+(\d+)/i
ReTurn5Check == IgnoreCase(<<Lit("Check Number"), Ws1, Open(1), Cls(Digit, 1, -1), Close(1)>>)
\* /Date\s+(\d{2}\/\d{2}\/\d{4})/
ReTurn5Date == <<Lit("Date"), Ws1>> \o SlashDate(1, 4, 4)
\* /Vendor\s+([A-Za-z0-9\s&,.'-]+?)(?=\s+Vendor ID)/
ReTurn5Customer ==
  <<Lit("Vendor"), Ws1, Open(1), ClsLazy(NameChars, 1, -1), Close(1), Look(<<Ws1, Lit("Vendor ID")>>)>>
\* /(\d{5})\s+(\d{2}\/\d{2}\/\d{4})\s+\$?([\d,]+\.\d{2})\s+\$?([\d,]+\.\d{2})\s+\$?([\d,]+\.\d{2})/g
ReTurn5Invoice ==
  <<Open(1), Cls(Digit, 5, 5), Close(1), Ws1>> \o SlashDate(2, 4, 4) \o <<Ws1, OptDollar>> \o
  Money(3) \o <<Ws1, OptDollar>> \o Money(4) \o <<Ws1, OptDollar>> \o Money(5)

parseTurn5PDF(text) ==
  LET checkMatch == matchI(ReTurn5Check, text)
      dateMatch == match(ReTurn5Date, text)
      customerMatch == match(ReTurn5Customer, text)
      ms == execAll(ReTurn5Invoice, text, 1)
  IN [EmptyResult("Turn 5, Inc.") EXCEPT
        !.paymentNumber = IF checkMatch.ok THEN Group(text, checkMatch, 1) ELSE "",
        !.paymentDate =
          IF dateMatch.ok THEN RemittanceParser_normalizeDate(StrVal(Group(text, dateMatch, 1)))
          ELSE "",
        !.customer = IF customerMatch.ok THEN trim(Group(text, customerMatch, 1)) ELSE "",
        !.invoices =
          [k \in 1..Len(ms) |->
             Invoice(Group(text, ms[k], 1),
                     RemittanceParser_normalizeDate(StrVal(Group(text, ms[k], 2))),
                     parseMoney(Group(text, ms[k], 3)), parseMoney(Group(text, ms[k], 4)),
                     parseMoney(Group(text, ms[k], 5)), Undefined, Undefined, "")]]

\* /(\d{5})\s+09\/15\/25/
ReOrwCheck == <<Open(1), Cls(Digit, 5, 5), Close(1), Ws1, Lit("09/15/25")>>
\* /(\d{2}\/\d{2}\/\d{2,4})/
ReOrwDate == SlashDate(1, 2, 4)
\* /(?:PAY TO THE ORDER OF|ARTEC INDUSTRIES)/i
ReOrwCustomer == IgnoreCase(<<Alt(<<<<Lit("PAY TO THE ORDER OF")>>, <<Lit("ARTEC INDUSTRIES")>>>>)>>)
\* /(\d{5})\s+(\d{2}\/\d{2}\/\d{2})\s+([\d,]+\.\d{2})\s+([\d.]+)\s+([\d.]+)\s+([\d,]+\.\d{2})/g
ReOrwInvoice ==
  <<Open(1), Cls(Digit, 5, 5), Close(1), Ws1>> \o SlashDate(2, 2, 2) \o <<Ws1>> \o Money(3) \o
  <<Ws1, Open(4), Cls(Digit \cup {"."}, 1, -1), Close(4), Ws1, Open(5),
    Cls(Digit \cup {"."}, 1, -1), Close(5), Ws1>> \o Money(6)

parseORWPDF(text) ==
  LET checkMatch == match(ReOrwCheck, text)
      dateMatch == match(ReOrwDate, text)
      customerMatch == matchI(ReOrwCustomer, text)
      ms == execAll(ReOrwInvoice, text, 1)
  IN [EmptyResult("ORW USA, INC.") EXCEPT
        !.paymentNumber = IF checkMatch.ok THEN Group(text, checkMatch, 1) ELSE "",
        !.paymentDate =
          IF dateMatch.ok THEN RemittanceParser_normalizeDate(StrVal(Group(text, dateMatch, 1)))
          ELSE "",
        !.customer = IF customerMatch.ok THEN "ARTEC INDUSTRIES" ELSE "",
        !.invoices =
          [k \in 1..Len(ms) |->
             Invoice(Group(text, ms[k], 1),
                     RemittanceParser_normalizeDate(StrVal(Group(text, ms[k], 2))),
                     parseMoney(Group(text, ms[k], 3)), parseMoney(Group(text, ms[k], 4)),
                     parseMoney(Group(text, ms[k], 6)), Undefined, Undefined, "")]]

\* the switch (format) that ends parsePDF
parseByFormat(text) ==
  LET format == detectPDFFormat(text)
  IN CASE format = "meyer" -> parseMeyerPDF(text)
       [] format = "turn5" -> parseTurn5PDF(text)
       [] format = "orw" -> parseORWPDF(text)
       [] OTHER -> parseGenericPDF(text)

-----------------------------------------------------------------------------
(* error-handler.js and the remittance form (handleFile, upsertInvoice) *)

\* handleError: the ERROR_TYPES member chosen from the message of the error
handleError(message) ==
  LET errorMessage == toLowerCase(message)
  IN IF includes(errorMessage, "file") /\ includes(errorMessage, "large") THEN "FILE_TOO_LARGE"
     ELSE IF includes(errorMessage, "unsupported") \/ includes(errorMessage, "unknown file type")
          THEN "UNSUPPORTED_FILE"
     ELSE IF includes(errorMessage, "library") \/ includes(errorMessage, "cdn")
             \/ includes(errorMessage, "failed to load")
          THEN "LIBRARY_LOAD_FAILED"
     ELSE IF includes(errorMessage, "ocr") THEN "OCR_FAILED"
     ELSE IF includes(errorMessage, "no")
             /\ (includes(errorMessage, "data") \/ includes(errorMessage, "invoice"))
          THEN "NO_DATA_FOUND"
     ELSE IF includes(errorMessage, "network") \/ includes(errorMessage, "timeout")
          THEN "NETWORK_ERROR"
     ELSE "PARSE_FAILED"

initialState ==
  [payer |-> "", vendor |-> "", date |-> "", amountReceived |-> Zero, invoices |-> <<>>,
   suggestions |-> <<>>]

\* a || b on numbers
OrElse(a, b) == IF Falsy(a) THEN b ELSE a

\* the form's parseMoney applied to a value that is not a finite number:
\* Number(String(s || '').replace(/[^0-9.-]/g, '') || 0)
App_parseMoney(v) == IF v.d = 0 /\ v.n < 0 THEN NaN ELSE Zero

\* /(\d{4})[\-\/.](\d{1,2})[\-\/.](\d{1,2})/
ReAppYmd ==
  <<Open(1), Cls(Digit, 4, 4), Close(1), Cls({"/", "-", "."}, 1, 1), Open(2), Cls(Digit, 1, 2),
    Close(2), Cls({"/", "-", "."}, 1, 1), Open(3), Cls(Digit, 1, 2), Close(3)>>

\* normalizeDate of the remittance form, for a string
App_normalizeDate(v) ==
  IF v = "" THEN ""
  ELSE LET str == trim(v)
           mdy == match(ReMdy, str)
           ymd == match(ReAppYmd, str)
       IN IF mdy.ok
          THEN LET y == Group(str, mdy, 3)
                   yyyy == IF Len(y) = 2 THEN ExpandYear(y) ELSE y
               IN padStart(yyyy, 4) \o "-" \o padStart(Group(str, mdy, 1), 2) \o "-" \o
                  padStart(Group(str, mdy, 2), 2)
          ELSE IF ymd.ok
          THEN padStart(Group(str, ymd, 1), 4) \o "-" \o padStart(Group(str, ymd, 2), 2) \o "-" \o
               padStart(Group(str, ymd, 3), 2)
          ELSE DateConstructor(str)

\* upsertInvoice(partial) on state.invoices; partial.hasDiscount is 'discount' in partial
upsertInvoice(rows, partial) ==
  LET id == trim(partial.invoice)
      applied == IF isFinite(partial.applied) THEN partial.applied ELSE App_parseMoney(partial.applied)
      open0 == IF isFinite(partial.open) THEN partial.open ELSE App_parseMoney(partial.open)
      original0 == IF isFinite(partial.original) THEN partial.original ELSE Undefined
      date == IF partial.date # "" THEN App_normalizeDate(partial.date) ELSE ""
      discount ==
        IF ~partial.hasDiscount THEN Undefined
        ELSE IF isFinite(partial.discount) THEN partial.discount ELSE App_parseMoney(partial.discount)
      original ==
        IF Falsy(original0) /\ (~Falsy(open0) \/ ~Falsy(applied))
        THEN MathMax(OrElse(open0, Zero), OrElse(applied, Zero))
        ELSE original0
      open == IF Falsy(open0) /\ ~Falsy(applied) THEN applied ELSE open0
      existing == {k \in 1..Len(rows) : rows[k].invoice = id}
  IN IF id = "" THEN rows
     ELSE IF existing # {}
     THEN LET k == CHOOSE j \in existing : \A i \in existing : j <= i
          IN [rows EXCEPT ![k] =
                [invoice |-> id, open |-> open, applied |-> applied, original |-> original,
                 discount |-> IF partial.hasDiscount THEN discount ELSE rows[k].discount,
                 description |->
                   IF partial.description # "" THEN partial.description ELSE rows[k].description,
                 date |-> date]]
     ELSE Append(rows,
                 [invoice |-> id, open |-> open, applied |-> applied,
                  original |-> IF original = Undefined THEN open ELSE original,
                  discount |-> discount, description |-> partial.description, date |-> date])

\* the object handleFile builds from an entry of result.invoices
InvoiceOf(inv) ==
  [invoice |-> inv.invoice,
   date |-> inv.date,
   applied |-> OrElse(OrElse(inv.paidAmount, inv.amount), Zero),
   open |-> OrElse(OrElse(inv.paidAmount, inv.amount), Zero),
   original |-> OrElse(OrElse(inv.originalAmount, inv.amount), Zero),
   hasDiscount |-> ~Falsy(inv.discount),
   discount |-> inv.discount,
   description |-> inv.notes]

\* result.invoices.forEach(... upsertInvoice(invoice))
RECURSIVE UpsertAll(_, _)
UpsertAll(rows, invs) ==
  IF invs = <<>> THEN rows ELSE UpsertAll(upsertInvoice(rows, InvoiceOf(Head(invs))), Tail(invs))

\* state.invoices.reduce((sum, inv) => sum + (inv.applied || 0), 0)
RECURSIVE SumApplied(_)
SumApplied(rows) ==
  IF rows = <<>> THEN Zero ELSE Add(OrElse(Head(rows).applied, Zero), SumApplied(Tail(rows)))

\* the state handleFile builds from a parse result that passed its check
ApplyResult(result) ==
  LET isAccountsPayable == result.customer # "" /\ result.vendor = ""
      rows == UpsertAll(<<>>, result.invoices)
  IN [payer |-> IF isAccountsPayable THEN ""
                ELSE IF result.customer # "" THEN result.customer ELSE result.vendor,
      vendor |-> IF isAccountsPayable THEN result.customer ELSE result.vendor,
      date |-> result.paymentDate,
      amountReceived |-> IF Len(rows) > 0 THEN SumApplied(rows) ELSE Zero,
      invoices |-> rows,
      suggestions |-> <<>>]

-----------------------------------------------------------------------------
(* handleFile of the remittance form on a PDF: parsePDF, performOCR *)

\* a text-layer fragment of n visible characters
Fragment(n) == Repeat("x", n)

GenericText == "Payment Number: PAY-1001 Date 01/15/2025 Invoice 12345 amount 250.00"
HeaderOnlyText == "Payment Number: PAY-1001 Payment Date 01/15/2025 for services rendered"
Turn5Text ==
  "Turn 5, Inc. Check Number 445566 Date 03/10/2025 Vendor Artec Industries Vendor ID 9001 " \o
  "10021 03/01/2025 $500.00 $10.00 $490.00"
OrwText ==
  "ORW USA, INC. PAY TO THE ORDER OF ARTEC INDUSTRIES 26616 09/15/25 " \o
  "30011 09/01/25 1,250.00 0.00 0.00 1,250.00"
MeyerText ==
  "Meyer Distributing Payment Number EFT000000179629 Payment Date 09/20/2025 " \o
  "Vendor Name Artec Industries Vendor ID 5005 40001 09/02/2025 Parts order $300.00 $6.00 " \o
  "$294.00 40001 short pay $15.00 co-op"

\* per page, the str of the items getTextContent() returns
TextLayers ==
  {<<<<>>>>, <<<<>>, <<>>>>, <<<<" ", "  ">>>>,
   <<<<Fragment(49)>>>>, <<<<Fragment(50)>>>>, <<<<Fragment(51)>>>>,
   <<<<Fragment(24)>>, <<Fragment(25)>>>>, <<<<Fragment(25)>>, <<Fragment(25)>>>>,
   <<<<"Payment Number: PAY-1001", "Date 01/15/2025", "Invoice 12345 amount 250.00">>>>,
   <<<<"Check # 7781 dated 2/3/25", "Inv 20001 $1,200.50">>, <<"Invoice #20002: 99.95">>>>,
   <<<<HeaderOnlyText>>>>, <<<<Turn5Text>>>>, <<<<OrwText>>>>, <<<<MeyerText>>>>,
   <<<<"Turn 5 and ORW USA joint remittance", "Check Number 7000 Date 03/10/2025">>>>,
   <<<<"Meyer Distributing for ORW USA and Turn 5">>, <<"Payment Number EFT1 Payment Date 09/20/2025">>>>}
\* per page, the text Tesseract.recognize reads off the rendered page
Scans ==
  {<<"">>, <<"", "">>, <<GenericText>>, <<"Reference: REF-9 01/15/2025">>,
   <<"", "Inv 20001 $1,200.50">>}
Docs == {d \in [pages : TextLayers, scan : Scans] : Len(d.scan) = Len(d.pages)}
\* messages Tesseract.recognize can reject with
RecognizeErrors == {"Error in pixReadMem", "Network error while fetching eng.traineddata"}

NoResult == EmptyResult("")

\* textContent.items.map(item => item.str).join(' ')
RECURSIVE JoinSpace(_)
JoinSpace(strs) ==
  IF strs = <<>> THEN ""
  ELSE IF Len(strs) = 1 THEN strs[1]
  ELSE strs[1] \o " " \o JoinSpace(Tail(strs))

\* a text layer of exactly 50 characters counted as meaningful text
hasText_AtLeast50(text) == Len(trim(text)) >= 50

\* const hasText = fullText.trim().length > 50
hasText(text) == Len(trim(text)) > 50

\* the Error parsePDF throws from its catch (ocrError)
OcrFailure(message) == "This appears to be a scanned/image PDF. OCR extraction failed: " \o message

PdfInit ==
  /\ pdfDoc \in Docs
  /\ Tesseract \in BOOLEAN
  /\ ocrEngine \in {"ok"} \cup RecognizeErrors
  /\ pdfPc = "handleFile"
  /\ pageNum = 0
  /\ fullText = ""
  /\ textLayer = ""
  /\ ocrCalled = FALSE
  /\ pdfResult = NoResult
  /\ pdfError = ""
  /\ shown = ""
  /\ state = initialState

\* the page text is put in front of the text read so far
AppendPage_InFront(text, pageText) == pageText \o "\n" \o text

\* fullText += pageText + '\n'
AppendPage(text, pageText) == text \o pageText \o "\n"

\* handleFile up to parsePDF's getDocument: let fullText = ''; pageNum = 1
ParsePDF_Open ==
  /\ pdfPc = "handleFile"
  /\ pdfPc' = "textLoop"
  /\ pageNum' = 1
  /\ fullText' = ""
  /\ UNCHANGED <<pdfDoc, Tesseract, ocrEngine, textLayer, ocrCalled, pdfResult, pdfError, shown, state>>
  /\ UNCHANGED <<clsVars, ndVars, invVars, fldVars, monVars, psVars, capVars, llVars, dpVars, ovVars, upVars>>

\* one round of the text-layer loop of parsePDF
ParsePDF_ReadPage ==
  /\ pdfPc = "textLoop"
  /\ pageNum <= Len(pdfDoc.pages)
  /\ fullText' = AppendPage(fullText, JoinSpace(pdfDoc.pages[pageNum]))
  /\ pageNum' = pageNum + 1
  /\ UNCHANGED <<pdfDoc, Tesseract, ocrEngine, pdfPc, textLayer, ocrCalled, pdfResult, pdfError, shown,
                 state>>
  /\ UNCHANGED <<clsVars, ndVars, invVars, fldVars, monVars, psVars, capVars, llVars, dpVars, ovVars, upVars>>

\* after the loop: hasText, and the entry of performOCR when it is false
ParsePDF_CheckText ==
  /\ pdfPc = "textLoop"
  /\ pageNum > Len(pdfDoc.pages)
  /\ textLayer' = fullText
  /\ IF hasText(fullText)
     THEN /\ pdfPc' = "parse"
          /\ UNCHANGED <<pageNum, fullText, ocrCalled, pdfError>>
     ELSE /\ ocrCalled' = TRUE
          /\ IF ~Tesseract
             THEN /\ pdfError' = OcrFailure("Tesseract.js library not loaded")
                  /\ pdfPc' = "catch"
                  /\ UNCHANGED <<pageNum, fullText>>
             ELSE /\ pdfPc' = "ocrLoop"
                  /\ pageNum' = 1
                  /\ fullText' = ""
                  /\ UNCHANGED pdfError
  /\ UNCHANGED <<pdfDoc, Tesseract, ocrEngine, pdfResult, shown, state>>
  /\ UNCHANGED <<clsVars, ndVars, invVars, fldVars, monVars, psVars, capVars, llVars, dpVars, ovVars, upVars>>

\* one round of the loop of performOCR: render the page, recognize it
PerformOCR_Page ==
  /\ pdfPc = "ocrLoop"
  /\ pageNum <= Len(pdfDoc.pages)
  /\ IF ocrEngine # "ok"
     THEN /\ pdfError' = OcrFailure(ocrEngine)
          /\ pdfPc' = "catch"
          /\ UNCHANGED <<pageNum, fullText>>
     ELSE /\ fullText' = AppendPage(fullText, pdfDoc.scan[pageNum])
          /\ pageNum' = pageNum + 1
          /\ UNCHANGED <<pdfPc, pdfError>>
  /\ UNCHANGED <<pdfDoc, Tesseract, ocrEngine, textLayer, ocrCalled, pdfResult, shown, state>>
  /\ UNCHANGED <<clsVars, ndVars, invVars, fldVars, monVars, psVars, capVars, llVars, dpVars, ovVars, upVars>>

\* return fullText of performOCR, assigned to parsePDF's fullText
PerformOCR_Return ==
  /\ pdfPc = "ocrLoop"
  /\ pageNum > Len(pdfDoc.pages)
  /\ pdfPc' = "parse"
  /\ UNCHANGED <<pdfDoc, Tesseract, ocrEngine, pageNum, fullText, textLayer, ocrCalled, pdfResult,
                 pdfError, shown, state>>
  /\ UNCHANGED <<clsVars, ndVars, invVars, fldVars, monVars, psVars, capVars, llVars, dpVars, ovVars, upVars>>

\* detectPDFFormat and the format's parser; parsePDF returns
ParsePDF_Parse ==
  /\ pdfPc = "parse"
  /\ pdfResult' = parseByFormat(fullText)
  /\ pdfPc' = "returned"
  /\ UNCHANGED <<pdfDoc, Tesseract, ocrEngine, pageNum, fullText, textLayer, ocrCalled, pdfError, shown,
                 state>>
  /\ UNCHANGED <<clsVars, ndVars, invVars, fldVars, monVars, psVars, capVars, llVars, dpVars, ovVars, upVars>>

\* handleFile after parseFile returned: the check of result.invoices, then
\* the result is applied to the state
HandleFile_Apply ==
  /\ pdfPc = "returned"
  /\ IF Len(pdfResult.invoices) = 0
     THEN /\ pdfError' = "No invoice data found in this file"
          /\ pdfPc' = "catch"
          /\ UNCHANGED state
     ELSE /\ state' = ApplyResult(pdfResult)
          /\ pdfPc' = "done"
          /\ UNCHANGED pdfError
  /\ UNCHANGED <<pdfDoc, Tesseract, ocrEngine, pageNum, fullText, textLayer, ocrCalled, pdfResult,
                 shown>>
  /\ UNCHANGED <<clsVars, ndVars, invVars, fldVars, monVars, psVars, capVars, llVars, dpVars, ovVars, upVars>>

\* catch (err) of handleFile: showError(err, toastEl)
HandleFile_Catch ==
  /\ pdfPc = "catch"
  /\ shown' = handleError(pdfError)
  /\ pdfPc' = "done"
  /\ UNCHANGED <<pdfDoc, Tesseract, ocrEngine, pageNum, fullText, textLayer, ocrCalled, pdfResult,
                 pdfError, state>>
  /\ UNCHANGED <<clsVars, ndVars, invVars, fldVars, monVars, psVars, capVars, llVars, dpVars, ovVars, upVars>>

PdfIdle ==
  /\ pdfDoc = [pages |-> <<>>, scan |-> <<>>]
  /\ Tesseract = FALSE
  /\ ocrEngine = "ok"
  /\ pdfPc = "idle"
  /\ pageNum = 0
  /\ fullText = ""
  /\ textLayer = ""
  /\ ocrCalled = FALSE
  /\ pdfResult = NoResult
  /\ pdfError = ""
  /\ shown = ""
  /\ state = initialState

-----------------------------------------------------------------------------
(* EnhancedInvoiceParser: line items and total *)

\* (\d+(?:\.\d+)?)
Number(g) ==
  <<Open(g), Cls(Digit, 1, -1), Opt(<<Lit("."), Cls(Digit, 1, -1)>>), Close(g)>>
\* ([\d,]+\.?\d{2})
Amount(g) == <<Open(g), Cls(DigitComma, 1, -1), Cls({"."}, 0, 1), Cls(Digit, 2, 2), Close(g)>>

\* text.split(/[\r\n]+/)
RECURSIVE splitLines(_)
splitLines(text) ==
  LET a == Run(text, 1, Newline, TRUE, -1)
      b == Run(text, a + 1, Newline, FALSE, -1)
  IN IF a = Len(text) THEN <<text>>
     ELSE <<SubSeq(text, 1, a)>> \o splitLines(SubSeq(text, a + b + 1, Len(text)))

Item(quantity, description, unitPrice, amount) ==
  [quantity |-> quantity, description |-> description, unitPrice |-> unitPrice, amount |-> amount]

isHeaderOrFooter(line) ==
  LET lower == toLowerCase(line)
  IN \E k \in {"invoice", "bill to", "ship to", "quantity", "description", "unit price", "amount",
               "total", "page", "thank you", "terms", "payment", "please"} : includes(lower, k)

\* /(?:screw|bolt|nut|washer|plate|joint|rod|part|material|service|freight|charge|fee|assembly)/i
productKeywords ==
  IgnoreCase(<<Alt(<<<<Lit("screw")>>, <<Lit("bolt")>>, <<Lit("nut")>>, <<Lit("washer")>>,
                     <<Lit("plate")>>, <<Lit("joint")>>, <<Lit("rod")>>, <<Lit("part")>>,
                     <<Lit("material")>>, <<Lit("service")>>, <<Lit("freight")>>,
                     <<Lit("charge")>>, <<Lit("fee")>>, <<Lit("assembly")>>>>)>>)
\* /^[A-Z][A-Za-z\s,\d-]+$/
ReTitleLine ==
  <<Bol(FALSE), Cls(UpperSet, 1, 1), Cls(Letter \cup Space \cup Digit \cup {",", "-"}, 1, -1),
    Eol(FALSE)>>

looksLikeProductDescription(line) ==
  IF line = "" \/ Len(line) < 10 \/ Len(line) > 200 THEN FALSE
  ELSE IF isHeaderOrFooter(line) THEN FALSE
  ELSE matchI(productKeywords, line).ok \/ match(ReTitleLine, line).ok

\* /^(subtotal|total|tax|freight|shipping|discount|payment)/i
ReTotalsPrefix ==
  IgnoreCase(<<Bol(FALSE),
               Alt(<<<<Lit("subtotal")>>, <<Lit("total")>>, <<Lit("tax")>>, <<Lit("freight")>>,
                     <<Lit("shipping")>>, <<Lit("discount")>>, <<Lit("payment")>>>>)>>)

isValidLineItem(description, quantity, unitPrice, amount) ==
  IF description = "" \/ Len(description) < 3 \/ Len(description) > 300 THEN FALSE
  ELSE IF matchI(ReTotalsPrefix, description).ok THEN FALSE
  ELSE IF Leq(quantity, Zero) \/ Less(Int2Num(100000), quantity) THEN FALSE
  ELSE IF Less(unitPrice, Zero) \/ Less(amount, Zero) THEN FALSE
  ELSE LET calculated == Mul(quantity, unitPrice)
           diff == MathAbs(Sub(calculated, amount))
           tolerance == MathMax(Mul(calculated, Rat(1, 10)), Int2Num(1))
       IN Leq(diff, tolerance)

\* /(\d+(?:\.\d+)?)\s+([A-Z0-9-]+.*?)\s+(?:EA|PCS|M|LB|lb)?\s*\$?([\d,]+\.?\d{2})\s+\$?([\d,]+\.?\d{2})/gi
ReTable ==
  IgnoreCase(Number(1) \o
             <<Ws1, Open(2), Cls(AlnumDash, 1, -1), NotClsLazy(Newline, 0, -1), Close(2), Ws1,
               Alt(<<<<Lit("EA")>>, <<Lit("PCS")>>, <<Lit("M")>>, <<Lit("LB")>>, <<Lit("lb")>>, <<>>>>),
               Ws0, OptDollar>> \o Amount(3) \o <<Ws1, OptDollar>> \o Amount(4))

extractTableFormat(text) ==
  The({LET cand == [k \in 1..Len(ms) |->
                      Item(parseFloat(Group(text, ms[k], 1)), trim(Group(text, ms[k], 2)),
                           parseMoney(Group(text, ms[k], 3)), parseMoney(Group(text, ms[k], 4)))]
           Valid(c) == isValidLineItem(c.description, c.quantity, c.unitPrice, c.amount)
       IN SelectSeq(cand, Valid) :
         ms \in {execAll(ReTable, toLowerCase(text), 1)}})

\* /(\d+(?:\.\d+)?)\s+.*?\$?([\d,]+\.?\d{2})\s+\$?([\d,]+\.?\d{2})/
ReQtyPrice ==
  Number(1) \o <<Ws1, NotClsLazy(Newline, 0, -1), OptDollar>> \o Amount(2) \o <<Ws1, OptDollar>> \o
  Amount(3)

\* the rounds i, i + 1, ... of the loop of extractDescriptionFirst (lines[1] is lines[0] of the code)
RECURSIVE DescriptionFirstFrom(_, _)
DescriptionFirstFrom(lines, i) ==
  IF i >= Len(lines) THEN <<>>
  ELSE LET line == trim(lines[i])
           combined == line \o " " \o trim(lines[i + 1])
           found ==
             The({IF looksLikeProductDescription(line) /\ m.ok
                  THEN <<Item(parseFloat(Group(combined, m, 1)), line,
                              parseMoney(Group(combined, m, 2)),
                              parseMoney(Group(combined, m, 3)))>>
                  ELSE <<>> :
                    m \in {match(ReQtyPrice, combined)}})
       IN found \o DescriptionFirstFrom(lines, i + 1)
extractDescriptionFirst(lines) == DescriptionFirstFrom(lines, 1)

\* /\$[\d,]+\.\d{2}/g
ReDollarAmount == <<Lit("$"), Cls(DigitComma, 1, -1), Lit("."), Cls(Digit, 2, 2)>>
\* /(?:^|\s)(\d+(?:\.\d+)?)\s/
ReQty == <<Alt(<<<<Bol(FALSE)>>, <<Cls(Space, 1, 1)>>>>)>> \o Number(1) \o <<Cls(Space, 1, 1)>>
\* /\d+(?:\.\d+)?\s+(.+?)\s+\$/
ReDescription ==
  <<Cls(Digit, 1, -1), Opt(<<Lit("."), Cls(Digit, 1, -1)>>), Ws1, Open(1),
    NotClsLazy(Newline, 1, -1), Close(1), Ws1, Lit("$")>>

\* one round of the loop of extractLineByLine: the items the line contributes
LineByLineOf(line) ==
  The({LET n == Len(dollarAmounts)
           quantity == parseFloat(Group(line, qtyMatch, 1))
           amount == parseMoney(Whole(line, dollarAmounts[n]))
           unitPrice == IF n > 1 THEN parseMoney(Whole(line, dollarAmounts[n - 1]))
                        ELSE Div(amount, quantity)
           description == IF descMatch.ok THEN trim(Group(line, descMatch, 1))
                          ELSE SubSeq(line, 1, IF Len(line) < 50 THEN Len(line) ELSE 50)
       IN IF isHeaderOrFooter(line) THEN <<>>
          ELSE IF n >= 1 /\ qtyMatch.ok /\ Len(description) >= 5
          THEN <<Item(quantity, description, unitPrice, amount)>>
          ELSE <<>> :
         dollarAmounts \in {execAll(ReDollarAmount, line, 1)},
         qtyMatch \in {match(ReQty, line)},
         descMatch \in {match(ReDescription, line)}})
RECURSIVE extractLineByLine(_)
extractLineByLine(lines) ==
  IF lines = <<>> THEN <<>> ELSE LineByLineOf(Head(lines)) \o extractLineByLine(Tail(lines))

\* [\s:]+\$?([\d,]+\.\d{2}), the tail of every pattern of extractTotal
TotalTail == <<Cls(Space \cup {":"}, 1, -1), OptDollar>> \o Money(1)
totalPatterns ==
  <<IgnoreCase(<<Lit("TOTAL"), Ws1, Lit("DUE")>> \o TotalTail),
    IgnoreCase(<<Lit("Total"), Ws1, Opt(<<Lit("Amount")>>)>> \o TotalTail),
    IgnoreCase(<<Lit("PLEASE PAY")>> \o TotalTail),
    IgnoreCase(<<Lit("Amount"), Ws1, Lit("Due")>> \o TotalTail),
    IgnoreCase(<<Alt(<<<<Bol(TRUE)>>, <<Cls(Space, 1, 1)>>>>), Lit("TOTAL")>> \o TotalTail)>>

\* the loop of extractTotal from pattern k on
RECURSIVE TotalFrom(_, _)
TotalFrom(text, k) ==
  IF k > Len(totalPatterns) THEN Zero
  ELSE The({LET amount == parseMoney(Group(text, m, 1))
            IN IF m.ok /\ Less(Zero, amount) /\ Less(amount, Int2Num(1000000)) THEN amount
               ELSE TotalFrom(text, k + 1) :
              m \in {matchI(totalPatterns[k], text)}})
\* the function ends without return 0: no rule matched and the total is undefined
extractTotal_NoDefault(text) ==
  LET total == TotalFrom(text, 1) IN IF total = Zero THEN Undefined ELSE total

\* EnhancedInvoiceParser.extractTotal
extractTotal(text) == TotalFrom(text, 1)

\* intelligentExtract from its line items on: total and description
intelligentExtract(text, lineItems) ==
  [lineItems |-> lineItems,
   totalAmount |-> extractTotal(text),
   description |->
     IF Len(lineItems) > 0
     THEN SubSeq(lineItems[1].description, 1,
                 IF Len(lineItems[1].description) < 100 THEN Len(lineItems[1].description) ELSE 100)
     ELSE ""]

-----------------------------------------------------------------------------
(* InvoiceParser.extractLineItems (invoice-parser.js) *)

\* /MATERIAL\s+(\d+(?:\.\d+)?)\s+PCS\s+@\s+([\d,]+\.\d+)\s+EA\s+([\d,]+\.\d+)/gi
pattern1 ==
  IgnoreCase(<<Lit("MATERIAL"), Ws1>> \o Number(1) \o
             <<Ws1, Lit("PCS"), Ws1, Lit("@"), Ws1, Open(2), Cls(DigitComma, 1, -1), Lit("."),
               Cls(Digit, 1, -1), Close(2), Ws1, Lit("EA"), Ws1, Open(3), Cls(DigitComma, 1, -1),
               Lit("."), Cls(Digit, 1, -1), Close(3)>>)
\* /\d+\s+([A-Z][A-Z\s\d.-]+?)(?:\s+\d+\s+PCS|\s+ASTM)/i
ReMaterialDescription ==
  IgnoreCase(<<Cls(Digit, 1, -1), Ws1, Open(1), Cls(UpperSet, 1, 1),
               ClsLazy(UpperSet \cup Space \cup Digit \cup {".", "-"}, 1, -1), Close(1),
               Alt(<<<<Ws1, Cls(Digit, 1, -1), Ws1, Lit("PCS")>>, <<Ws1, Lit("ASTM")>>>>)>>)
\* /(\d+(?:\.\d+)?)\s+([A-Z0-9][^\$\n]{10,80}?)\s+\$?([\d,]+\.\d{2})\s+\$?([\d,]+\.\d{2})/gi
pattern2 ==
  IgnoreCase(Number(1) \o
             <<Ws1, Open(2), Cls(UpperSet \cup Digit, 1, 1), NotClsLazy({"$", "\n"}, 10, 80),
               Close(2), Ws1, OptDollar>> \o Money(3) \o <<Ws1, OptDollar>> \o Money(4))
\* /^[\s]*(.{15,100}?)\s+\$?([\d,]+\.\d{2})$/gm
pattern3 ==
  <<Bol(TRUE), Ws0, Open(1), NotClsLazy(Newline, 15, 100), Close(1), Ws1, OptDollar>> \o Money(2) \o
  <<Eol(TRUE)>>
\* /^(subtotal|total|tax|freight|shipping|payment|balance)/i
ReNonItemPrefix ==
  IgnoreCase(<<Bol(FALSE),
               Alt(<<<<Lit("subtotal")>>, <<Lit("total")>>, <<Lit("tax")>>, <<Lit("freight")>>,
                     <<Lit("shipping")>>, <<Lit("payment")>>, <<Lit("balance")>>>>)>>)

\* the items the loop over pattern1 pushes
Pattern1Items(text) ==
  LET Row(m) ==
        LET from == IF m.start - 300 < 1 THEN 1 ELSE m.start - 300
            beforeMatch == SubSeq(text, from, m.start - 1)
        IN The({Item(parseFloat(Group(text, m, 1)),
                     IF descMatch.ok THEN trim(Group(beforeMatch, descMatch, 1)) ELSE "Material",
                     parseMoney(Group(text, m, 2)), parseMoney(Group(text, m, 3))) :
                  descMatch \in {matchI(ReMaterialDescription, beforeMatch)}})
  IN The({[k \in 1..Len(ms) |-> Row(ms[k])] : ms \in {execAll(pattern1, toLowerCase(text), 1)}})

\* the items the loop over pattern2 pushes
Pattern2Items(text) ==
  The({[k \in 1..Len(ms) |->
          Item(parseFloat(Group(text, ms[k], 1)), trim(Group(text, ms[k], 2)),
               parseMoney(Group(text, ms[k], 3)), parseMoney(Group(text, ms[k], 4)))] :
         ms \in {execAll(pattern2, toLowerCase(text), 1)}})

\* the items the loop over pattern3 pushes
Pattern3Items(text) ==
  LET Kept(m) == ~matchI(ReNonItemPrefix, Group(text, m, 1)).ok
  IN The({[k \in 1..Len(kept) |->
             Item(Int2Num(1), trim(Group(text, kept[k], 1)), parseMoney(Group(text, kept[k], 2)),
                  parseMoney(Group(text, kept[k], 2)))] :
            kept \in {SelectSeq(execAll(pattern3, text, 1), Kept)}})

-----------------------------------------------------------------------------
(* The invoice form: handleFile, render, renderLineItems *)

\* total of renderLineItems: the sum of (item.quantity || 0) * (item.unitPrice || 0)
RECURSIVE LineItemsTotal(_)
LineItemsTotal(lineItems) ==
  IF lineItems = <<>> THEN Zero
  ELSE Add(Mul(OrElse(Head(lineItems).quantity, Zero), OrElse(Head(lineItems).unitPrice, Zero)),
           LineItemsTotal(Tail(lineItems)))

invoiceInitialState == [description |-> "", totalAmount |-> Zero, lineItems |-> <<>>]

\* handleFile: the state filled from the result, then render() with renderLineItems()
RenderedState(result) ==
  LET totalAmount == OrElse(result.totalAmount, Zero)
  IN [description |-> result.description,
      lineItems |-> result.lineItems,
      totalAmount |->
        IF Len(result.lineItems) > 0 /\ Falsy(totalAmount) THEN LineItemsTotal(result.lineItems)
        ELSE totalAmount]

InvTexts ==
  {"10 RJ-331300-102 Johnny Joint $42.08 $420.75",
   "2 WIDGETS blue $5.00 $99.00",
   "Steel bolt assembly\n4 $2.00 $50.00",
   "Hex bolt pack\n3 $4.00 $12.00\nTotal  $12.00",
   "",
   "5 AB-100 Washer EA 0.20 1.00\n2 CD-200 Rod $3.00 $6.00",
   "0 gizmo blue $5.00",
   "1 STEEL PLATE A36 4 PCS\nMATERIAL 4 PCS @ 2.50 EA 10.00",
   "Consulting services rendered $150.00",
   "Thank you for your business",
   "3 gadget small $2.00 $6.00\nTOTAL DUE: $6.00",
   "7 M8 nut zinc PCS $0.50 $3.50\nAmount Due: $3.50",
   "Freight charge\n1 $15.00 $15.00",
   "12 Flat washer $0.25 $3.00\n12 Lock washer $0.30 $3.60",
   "2 PAGE-HOLDER clip $5.00 $10.00",
   "Qty Description Amount\n3 Page divider set $4.00 $12.00"}

NoRecord == [lineItems |-> <<>>, totalAmount |-> Zero, description |-> ""]

InvInit ==
  /\ invText \in InvTexts
  /\ invParser \in {"enhanced", "basic"}
  /\ invPc = "start"
  /\ items = <<>>
  /\ itemOrigin = <<>>
  /\ attempted = <<>>
  /\ invResult = NoRecord
  /\ invState = invoiceInitialState

\* a strategy has run and pushed found
Pushed(strategy, found) ==
  /\ items' = items \o found
  /\ itemOrigin' = itemOrigin \o [k \in 1..Len(found) |-> strategy]
  /\ attempted' = Append(attempted, [strategy |-> strategy, pushed |-> Len(found)])

\* the items are returned although a later strategy is still to run
returnsEarly_Never(found) == FALSE

\* if (items.length > 0) return items
returnsEarly(found) == Len(found) > 0

\* EnhancedInvoiceParser.extractLineItems, strategy 1
ExtractLineItems_Table ==
  /\ invPc = "start" /\ invParser = "enhanced"
  /\ Pushed("table", extractTableFormat(invText))
  /\ invPc' = IF returnsEarly(items') THEN "extracted" ELSE "descriptionFirst"
  /\ UNCHANGED <<invText, invParser, invResult, invState>>
  /\ UNCHANGED <<clsVars, ndVars, pdfVars, fldVars, monVars, psVars, capVars, llVars, dpVars, ovVars, upVars>>

\* strategy 2
ExtractLineItems_DescriptionFirst ==
  /\ invPc = "descriptionFirst"
  /\ Pushed("descriptionFirst", extractDescriptionFirst(splitLines(invText)))
  /\ invPc' = IF returnsEarly(items') THEN "extracted" ELSE "lineByLine"
  /\ UNCHANGED <<invText, invParser, invResult, invState>>
  /\ UNCHANGED <<clsVars, ndVars, pdfVars, fldVars, monVars, psVars, capVars, llVars, dpVars, ovVars, upVars>>

\* strategy 3
ExtractLineItems_LineByLine ==
  /\ invPc = "lineByLine"
  /\ Pushed("lineByLine", extractLineByLine(splitLines(invText)))
  /\ invPc' = "extracted"
  /\ UNCHANGED <<invText, invParser, invResult, invState>>
  /\ UNCHANGED <<clsVars, ndVars, pdfVars, fldVars, monVars, psVars, capVars, llVars, dpVars, ovVars, upVars>>

\* intelligentExtract after extractLineItems returned
IntelligentExtract_Return ==
  /\ invPc = "extracted"
  /\ invResult' = intelligentExtract(invText, items)
  /\ invPc' = "parsed"
  /\ UNCHANGED <<invText, invParser, items, itemOrigin, attempted, invState>>
  /\ UNCHANGED <<clsVars, ndVars, pdfVars, fldVars, monVars, psVars, capVars, llVars, dpVars, ovVars, upVars>>

\* handleFile of the invoice form after parseFile returned
HandleFile_Render ==
  /\ invPc = "parsed"
  /\ invState' = RenderedState(invResult)
  /\ invPc' = "rendered"
  /\ UNCHANGED <<invText, invParser, items, itemOrigin, attempted, invResult>>
  /\ UNCHANGED <<clsVars, ndVars, pdfVars, fldVars, monVars, psVars, capVars, llVars, dpVars, ovVars, upVars>>

\* InvoiceParser.extractLineItems, pattern 1
InvoiceParser_Pattern1 ==
  /\ invPc = "start" /\ invParser = "basic"
  /\ Pushed("pattern1", Pattern1Items(invText))
  /\ invPc' = IF Len(items') = 0 THEN "pattern2" ELSE "returned"
  /\ UNCHANGED <<invText, invParser, invResult, invState>>
  /\ UNCHANGED <<clsVars, ndVars, pdfVars, fldVars, monVars, psVars, capVars, llVars, dpVars, ovVars, upVars>>

\* if (lineItems.length === 0): pattern 2
InvoiceParser_Pattern2 ==
  /\ invPc = "pattern2"
  /\ Pushed("pattern2", Pattern2Items(invText))
  /\ invPc' = IF Len(items') = 0 THEN "pattern3" ELSE "returned"
  /\ UNCHANGED <<invText, invParser, invResult, invState>>
  /\ UNCHANGED <<clsVars, ndVars, pdfVars, fldVars, monVars, psVars, capVars, llVars, dpVars, ovVars, upVars>>

\* if (lineItems.length === 0): pattern 3
InvoiceParser_Pattern3 ==
  /\ invPc = "pattern3"
  /\ Pushed("pattern3", Pattern3Items(invText))
  /\ invPc' = "returned"
  /\ UNCHANGED <<invText, invParser, invResult, invState>>
  /\ UNCHANGED <<clsVars, ndVars, pdfVars, fldVars, monVars, psVars, capVars, llVars, dpVars, ovVars, upVars>>

InvIdle ==
  /\ invText = ""
  /\ invParser = "enhanced"
  /\ invPc = "idle"
  /\ items = <<>>
  /\ itemOrigin = <<>>
  /\ attempted = <<>>
  /\ invResult = NoRecord
  /\ invState = invoiceInitialState

-----------------------------------------------------------------------------
(* Header fields of an invoice: the pattern cascades of                    *)
(* InvoiceParser.parseInvoiceText and of EnhancedInvoiceParser             *)

\* a pattern of a cascade, with its i flag
Pat(re, i) == [re |-> IF i THEN IgnoreCase(re) ELSE re, i |-> i]
\* text.match(pattern): with the i flag the pattern meets the text as matchI
\* hands it over
MatchPat(p, text) == exec(p.re, IF p.i THEN toLowerCase(text) ELSE text, 1)
\* text.match(pattern) for every pattern of a cascade
MatchEach(patterns, text) == [j \in 1..Len(patterns) |-> MatchPat(patterns[j], text)]
\* for (const pattern of patterns) { ... if (accepted) break }: the first of
\* the rules that are accepted, 0 when the loop runs to its end
FirstRule(accepted) ==
  IF accepted = {} THEN 0 ELSE CHOOSE k \in accepted : \A j \in accepted : k <= j

\* [\s:]+ , :?\s* and . as they recur in the patterns
LabelSep == Cls(Space \cup {":"}, 1, -1)
ColonWs == <<Cls({":"}, 0, 1), Ws0>>
AnyLazy == NotClsLazy(Newline, 0, -1)
\* (\d{1,2}[seps]\d{1,2}[seps]\d{lo,hi})
DateToken(seps, lo, hi) ==
  <<Open(1), Cls(Digit, 1, 2), Cls(seps, 1, 1), Cls(Digit, 1, 2), Cls(seps, 1, 1),
    Cls(Digit, lo, hi), Close(1)>>
\* (\d{1,2}[A-Za-z]{3}\d{2})
DdMmmYyToken == <<Open(1), Cls(Digit, 1, 2), Cls(Letter, 3, 3), Cls(Digit, 2, 2), Close(1)>>

\* the result object both parsers start from
EmptyInvoiceResult ==
  [supplier |-> "", invoiceId |-> "", invoiceDate |-> "", dueDate |-> "", netTerms |-> "",
   description |-> "", lineItems |-> <<>>, totalAmount |-> Zero, comments |-> <<>>]

\* EnhancedInvoiceParser.extractDates
invDatePatterns ==
  <<Pat(<<Lit("Invoice"), Ws1, Lit("Date"), LabelSep>> \o DateToken({"/"}, 4, 4), TRUE),
    Pat(<<Lit("Invoice"), Ws1, Lit("Date"), LabelSep>> \o DateToken({"-", "/"}, 2, 4), TRUE),
    Pat(<<Lit("DATE"), LabelSep>> \o DateToken({"/"}, 4, 4), TRUE),
    Pat(<<Lit("Date"), LabelSep>> \o DateToken({"/"}, 4, 4), FALSE)>>
enhancedDuePatterns ==
  <<Pat(<<Lit("Due"), Ws1, Lit("Date"), LabelSep>> \o DateToken({"/"}, 4, 4), TRUE),
    Pat(<<Lit("Payment"), Ws1, Lit("Due"), LabelSep>> \o DateToken({"/"}, 4, 4), TRUE),
    Pat(<<Lit("DUE"), Ws1, Lit("DATE"), LabelSep>> \o DateToken({"/"}, 4, 4), TRUE)>>
\* this.normalizeDate(match[1]) for the match of pattern p, '' when p does not match
NormalizedCapture(p, text, parser) ==
  The({IF ~m.ok THEN ""
       ELSE IF parser = "enhanced"
       THEN RemittanceParser_normalizeDate(StrVal(Group(text, m, 1)))
       ELSE InvoiceParser_normalizeDate(StrVal(Group(text, m, 1))) :
         m \in {MatchPat(p, text)}})
\* parseInt(normalized.split('-')[0])
YearOf(normalized) ==
  LET dashes == {i \in 1..Len(normalized) : SubSeq(normalized, i, i) = "-"}
      first == IF dashes = {} THEN Len(normalized) + 1
               ELSE CHOOSE i \in dashes : \A j \in dashes : i <= j
  IN ParseDigits(SubSeq(normalized, 1, first - 1))
extractDates(text) ==
  The({LET i == FirstRule({k \in 1..Len(invDatePatterns) : Inv[k] # ""})
           d == FirstRule({k \in 1..Len(enhancedDuePatterns) :
                             Due[k] # "" /\ YearOf(Due[k]) >= 2020 /\ YearOf(Due[k]) <= 2030})
       IN [invoiceDate |-> IF i = 0 THEN "" ELSE Inv[i],
           dueDate |-> IF d = 0 THEN "" ELSE Due[d]] :
         Inv \in {[k \in 1..Len(invDatePatterns) |->
                     NormalizedCapture(invDatePatterns[k], text, "enhanced")]},
         Due \in {[k \in 1..Len(enhancedDuePatterns) |->
                     NormalizedCapture(enhancedDuePatterns[k], text, "enhanced")]}})

\* InvoiceParser.parseInvoiceText: the invoice-date and due-date cascades
datePatterns ==
  <<Pat(<<Lit("Date")>> \o ColonWs \o DdMmmYyToken, TRUE),
    Pat(<<Lit("INVOICE"), Ws1, Lit("DATE")>> \o ColonWs \o DateToken({"/", "-"}, 2, 4), TRUE),
    Pat(<<Lit("DATE")>> \o ColonWs \o DateToken({"/", "-"}, 2, 4), TRUE),
    Pat(<<Alt(<<<<Lit("Invoice Date")>>, <<Lit("Date"), Cls({"d"}, 0, 1)>>>>)>> \o ColonWs \o
        DateToken({"/", "-"}, 2, 4), TRUE),
    Pat(DateToken({"/", "-"}, 4, 4), FALSE)>>
duePatterns ==
  <<Pat(<<Lit("Due")>> \o ColonWs \o DdMmmYyToken, TRUE),
    Pat(<<Lit("DUE"), Ws1, Lit("DATE")>> \o ColonWs \o DateToken({"/", "-"}, 2, 4), TRUE),
    Pat(<<Lit("PLEASE PAY"), AnyLazy>> \o DateToken({"/", "-"}, 2, 4), TRUE),
    Pat(<<Lit("Due")>> \o ColonWs \o DateToken({"/", "-"}, 2, 4), TRUE)>>
\* for (const pattern of patterns) { if (match) { field = normalizeDate(match[1]); break } }
FirstMatchNormalized(patterns, text) ==
  The({LET k == FirstRule({j \in 1..Len(patterns) : ms[j].ok})
       IN IF k = 0 THEN "" ELSE InvoiceParser_normalizeDate(StrVal(Group(text, ms[k], 1))) :
         ms \in {MatchEach(patterns, text)}})
parseInvoiceText_dates(text) ==
  [invoiceDate |-> FirstMatchNormalized(datePatterns, text),
   dueDate |-> FirstMatchNormalized(duePatterns, text)]

\* EnhancedInvoiceParser.extractTerms: its patterns
\*   /Terms?[\s:]+([A-Z][A-Za-z\s\d]+)/i, /(NET\s*\d+(?:\s+DAYS?)?)/i,
\*   /(Net\s+\d+)/i, /(DUE (?:ON|UPON) RECEIPT)/i
enhancedTermsPatterns ==
  <<Pat(<<Lit("Term"), Cls({"s"}, 0, 1), LabelSep, Open(1), Cls(UpperSet, 1, 1),
          Cls(Letter \cup Space \cup Digit, 1, -1), Close(1)>>, TRUE),
    Pat(<<Open(1), Lit("NET"), Ws0, Cls(Digit, 1, -1),
          Opt(<<Ws1, Lit("DAY"), Cls({"S"}, 0, 1)>>), Close(1)>>, TRUE),
    Pat(<<Open(1), Lit("Net"), Ws1, Cls(Digit, 1, -1), Close(1)>>, TRUE),
    Pat(<<Open(1), Lit("DUE "), Alt(<<<<Lit("ON")>>, <<Lit("UPON")>>>>), Lit(" RECEIPT"),
          Close(1)>>, TRUE)>>

\* match[1].trim().toUpperCase() of the first pattern that matches, else ''
FirstMatchUpper(patterns, text) ==
  The({LET k == FirstRule({j \in 1..Len(patterns) : ms[j].ok})
       IN IF k = 0 THEN "" ELSE toUpperCase(trim(Group(text, ms[k], 1))) :
         ms \in {MatchEach(patterns, text)}})

extractTerms(text) == FirstMatchUpper(enhancedTermsPatterns, text)

\* InvoiceParser.parseInvoiceText: termsPatterns
\*   /TERMS?:?\s*(NET\s*\d+(?:\s+DAYS)?|C\.?O\.?D\.?|Credit Card|Due (?:on|upon) receipt)/i
\*   /PAYMENT\s+TERMS?:?\s*(NET\s*\d+(?:\s+DAYS)?|C\.?O\.?D\.?|Credit Card)/i
\*   /(NET\s*\d+(?:\s+DAYS)?)/i, /(C\.?O\.?D\.?)/i
termsPatterns ==
  LET Dot == Cls({"."}, 0, 1)
      net == <<Lit("NET"), Ws0, Cls(Digit, 1, -1), Opt(<<Ws1, Lit("DAYS")>>)>>
      cod == <<Lit("C"), Dot, Lit("O"), Dot, Lit("D"), Dot>>
      card == <<Lit("Credit Card")>>
      receipt == <<Lit("Due "), Alt(<<<<Lit("on")>>, <<Lit("upon")>>>>), Lit(" receipt")>>
      label == <<Lit("TERM"), Cls({"S"}, 0, 1)>> \o ColonWs
  IN <<Pat(label \o <<Open(1), Alt(<<net, cod, card, receipt>>), Close(1)>>, TRUE),
       Pat(<<Lit("PAYMENT"), Ws1>> \o label \o <<Open(1), Alt(<<net, cod, card>>), Close(1)>>,
           TRUE),
       Pat(<<Open(1)>> \o net \o <<Close(1)>>, TRUE),
       Pat(<<Open(1)>> \o cod \o <<Close(1)>>, TRUE)>>

parseInvoiceText_terms(text) == FirstMatchUpper(termsPatterns, text)

\* (?:LLC|Inc\.|Corp\.|Co\.|Company)
CompanyEntity ==
  Alt(<<<<Lit("LLC")>>, <<Lit("Inc.")>>, <<Lit("Corp.")>>, <<Lit("Co.")>>, <<Lit("Company")>>>>)
\* [A-Za-z\s&,.''-]
SupplierChars == Letter \cup Space \cup {"&", ",", ".", "'", "-"}
\* \w
WordChars == Letter \cup Digit \cup {"_"}

\* EnhancedInvoiceParser.looksLikeCompanyName
looksLikeCompanyName(text) ==
  /\ Len(text) >= 5 /\ Len(text) <= 60
  /\ \/ MatchPat(Pat(<<Alt(<<<<Lit("LLC")>>, <<Lit("Inc.")>>, <<Lit("Corp.")>>, <<Lit("Co.")>>,
                            <<Lit("Company")>>, <<Lit("Ltd.")>>, <<Lit("Limited")>>>>),
                       Eol(FALSE)>>, TRUE), text).ok
     \/ /\ match(<<Bol(FALSE), Cls(UpperSet, 1, 1),
                   Cls(UpperSet \cup Space \cup {"&", ",", ".", "'", "-"}, 1, -1), Eol(FALSE)>>,
                 text).ok
        /\ includes(text, " ")

\* EnhancedInvoiceParser.isCustomerName
isCustomerName(text) ==
  \E k \in {"artec", "bill to", "ship to"} : includes(toLowerCase(text), k)

\* EnhancedInvoiceParser.isBlacklisted
isBlacklisted(text) ==
  \E b \in {"bill to", "ship to", "sold to", "artec", "invoice", "sales invoice", "payment",
            "please pay", "total", "amount due"} : includes(toLowerCase(text), b)

\* text.split(/[\r\n]+/).map(l => l.trim()).filter(Boolean)
TrimmedLines(text) ==
  LET raw == splitLines(text)
      NonEmpty(l) == l # ""
  IN SelectSeq([k \in 1..Len(raw) |-> trim(raw[k])], NonEmpty)

\* EnhancedInvoiceParser.extractSupplier (lines[i] of the model is lines[i - 1] of the code)
extractSupplier(text) ==
  LET Least(a, b) == IF a < b THEN a ELSE b
      invoiceLine == Pat(<<Lit("INVOICE"), Ws0, Eol(FALSE)>>, TRUE)
      invoiceCompany ==
        Pat(<<Bol(FALSE), Lit("INVOICE"), Ws1, Open(1), NotCls(Newline, 1, -1), CompanyEntity,
              Close(1)>>, TRUE)
      billFrom ==
        Pat(<<Alt(<<<<Lit("Bill From")>>, <<Lit("Sold By")>>, <<Lit("From")>>, <<Lit("Remit To")>>,
                    <<Lit("Vendor")>>>>), LabelSep, Open(1), Cls(UpperSet, 1, 1),
              Cls(SupplierChars, 1, -1), CompanyEntity, Close(1)>>, TRUE)
      entity ==
        Pat(<<Open(1), Cls(UpperSet, 1, 1), Cls(SupplierChars, 1, -1), Close(1), Ws1, Open(2),
              CompanyEntity, Close(2), Alt(<<<<Cls(Space, 1, 1)>>, <<Eol(FALSE)>>>>)>>, TRUE)
      \* what the four strategies make of the lines, given the matches of
      \* their patterns on every line
      Supplier(lines, company, isInvoice, withCompany, m2, Entity) ==
        LET n == Len(lines)
            \* strategy 1: the line the round for lines[i] returns, 0 when it returns none
            Near(i) ==
              LET prev == FirstRule({j \in (IF i > 5 THEN i - 5 ELSE 1)..(i - 1) : company[j]})
                  next == FirstRule({j \in (i + 1)..Least(i + 2, n) : company[j]})
              IN IF ~isInvoice[i] THEN 0 ELSE IF prev # 0 THEN prev ELSE next
            AtLine(i) ==
              IF Near(i) # 0 THEN trim(lines[Near(i)])
              ELSE IF withCompany[i].ok THEN trim(Group(lines[i], withCompany[i], 1)) ELSE ""
            s1 == FirstRule({i \in 1..Least(30, n) : AtLine(i) # ""})
            \* strategy 3
            s3 == FirstRule({i \in 1..Least(20, n) : company[i] /\ ~isBlacklisted(lines[i])})
            \* strategy 4
            s4 == FirstRule({i \in 1..Least(30, n) :
                               Entity[i].ok /\ ~isBlacklisted(Whole(lines[i], Entity[i]))})
        IN IF s1 # 0 THEN AtLine(s1)
           \* strategy 2
           ELSE IF m2.ok /\ ~isCustomerName(Group(text, m2, 1)) THEN trim(Group(text, m2, 1))
           ELSE IF s3 # 0 THEN trim(lines[s3])
           ELSE IF s4 # 0
                THEN trim(Group(lines[s4], Entity[s4], 1) \o " " \o Group(lines[s4], Entity[s4], 2))
           ELSE ""
  IN The({The({Supplier(lines, company, isInvoice, withCompany, m2, Entity) :
                 company \in {[i \in 1..Len(lines) |-> looksLikeCompanyName(lines[i])]},
                 isInvoice \in {[i \in 1..Len(lines) |-> MatchPat(invoiceLine, lines[i]).ok]},
                 withCompany \in {[i \in 1..Len(lines) |-> MatchPat(invoiceCompany, lines[i])]},
                 m2 \in {MatchPat(billFrom, text)},
                 Entity \in {[i \in 1..Len(lines) |-> MatchPat(entity, lines[i])]}}) :
            lines \in {TrimmedLines(text)}})

\* EnhancedInvoiceParser.extractInvoiceId: its patterns
enhancedInvoiceIdPatterns ==
  LET start == Alt(<<<<Bol(FALSE)>>, <<Cls(Space, 1, 1)>>>>)
      dash == Cls({"-"}, 0, 1)
  IN <<Pat(<<Lit("Invoice"), Ws1,
             Alt(<<<<Lit("No"), Cls({"."}, 0, 1)>>, <<Lit("Number")>>, <<Lit("#")>>>>), LabelSep,
             Open(1), Cls(AlnumDash, 1, -1), Close(1)>>, TRUE),
       Pat(<<Lit("Invoice"), LabelSep, Open(1), Cls(AlnumDash, 4, -1), Close(1)>>, TRUE),
       Pat(<<Lit("INVOICE"), Cls(Space \cup {"#", ":"}, 1, -1), Open(1), Cls(AlnumDash, 4, -1),
             Close(1)>>, TRUE),
       Pat(<<start, Alt(<<<<Lit("INV")>>, <<Lit("Inv")>>>>), Cls(Space \cup {"-", "#"}, 0, -1),
             Open(1), Cls(Digit, 5, -1), Close(1)>>, FALSE),
       Pat(<<start, Open(1), Cls(UpperSet, 2, 5), dash, Cls(Digit, 5, -1), Close(1)>>, FALSE),
       Pat(<<start, Open(1), Cls(UpperSet, 2, -1), dash, Cls(Digit, 4, -1), Close(1)>>, FALSE),
       Pat(<<Lit("Invoice"), AnyLazy, Open(1), Cls(Digit, 5, -1), Close(1)>>, TRUE)>>

\* EnhancedInvoiceParser.extractInvoiceId
extractInvoiceId(text) ==
  The({LET Id(k) == trim(Group(text, ms[k], 1))
           dateLike == <<Bol(FALSE), Cls(Digit, 1, 2), Cls({"/", "-"}, 1, 1), Cls(Digit, 1, 2)>>
           yearLike == <<Bol(FALSE), Alt(<<<<Lit("20")>>, <<Lit("19")>>>>), Cls(Digit, 2, 2)>>
           Accepted(k) ==
             /\ ms[k].ok /\ Group(text, ms[k], 1) # ""
             /\ ~match(dateLike, Id(k)).ok /\ ~match(yearLike, Id(k)).ok
             /\ Len(Id(k)) >= 4 /\ Len(Id(k)) <= 30
           k == FirstRule({j \in 1..Len(enhancedInvoiceIdPatterns) : Accepted(j)})
       IN IF k = 0 THEN "" ELSE Id(k) :
         ms \in {MatchEach(enhancedInvoiceIdPatterns, text)}})

\* InvoiceParser.parseInvoiceText: supplierPatterns
supplierPatterns ==
  LET name == <<Cls(UpperSet, 1, 1), Cls(SupplierChars, 1, -1)>>
      gap == <<Cls({":"}, 0, 1), Ws0, Cls({"\n"}, 0, 1), Ws0>>
      entity == <<<<Lit("LLC")>>, <<Lit("Inc.")>>, <<Lit("Corp.")>>, <<Lit("Co.")>>,
                  <<Lit("Company")>>, <<Lit("Corporation")>>, <<Lit("Limited")>>>>
      number == <<Lit("#"), Cls(Digit, 1, -1)>>
  IN <<Pat(<<Lit("Sold By")>> \o gap \o <<Open(1)>> \o name \o
           <<Alt(entity \o <<number, <<>>>>), Close(1)>>, TRUE),
       Pat(<<Alt(<<<<Lit("BILL TO")>>, <<Lit("FROM")>>>>)>> \o gap \o <<Open(1)>> \o name \o
           <<Close(1)>>, TRUE),
       Pat(<<Bol(TRUE), Open(1)>> \o name \o <<Alt(entity), Close(1)>>, FALSE),
       Pat(<<Bol(TRUE), Open(1), Cls(UpperSet \cup Space \cup {"&", "-"}, 1, -1),
             Alt(<<<<Lit("LLC")>>, <<Lit("INC")>>, <<Lit("CORP")>>, number>>), Close(1)>>, FALSE)>>

\* the supplier cascade: the first pattern whose capture is not the INVOICE heading
parseInvoiceText_supplier(text) ==
  The({LET Supplier(k) == trim(Group(text, ms[k], 1))
           heading ==
             Pat(<<Bol(FALSE), Lit("I"), Ws0, Lit("N"), Ws0, Lit("V"), Ws0, Lit("O"), Ws0, Lit("I"),
                   Ws0, Lit("C"), Ws0, Lit("E")>>, TRUE)
           k == FirstRule({j \in 1..Len(supplierPatterns) :
                             ms[j].ok /\ ~MatchPat(heading, Supplier(j)).ok})
       IN IF k = 0 THEN "" ELSE Supplier(k) :
         ms \in {MatchEach(supplierPatterns, text)}})

\* InvoiceParser.parseInvoiceText: invoiceIdPatterns
invoiceIdPatterns ==
  LET id == <<Open(1), Cls(AlnumDash, 1, -1), Close(1)>>
  IN <<Pat(<<Lit("INVOICE"), Ws0,
             Alt(<<<<Lit("NUMBER")>>, <<Lit("#")>>, <<Lit("NO"), Cls({"."}, 0, 1)>>, <<Lit("ID")>>,
                   <<>>>>)>> \o ColonWs \o id, TRUE),
       Pat(<<Lit("Invoice"), Ws0, Cls({"#"}, 0, 1), Ws0>> \o id, TRUE),
       Pat(<<Lit("INV"), Opt(<<Lit("OICE")>>), Cls(Space \cup {"-", "#"}, 0, -1)>> \o id, TRUE),
       Pat(<<Alt(<<<<Bol(TRUE)>>, <<Cls(Space, 1, 1)>>>>), Open(1), Cls(UpperSet, 2, 5),
             Cls({"-"}, 0, 1), Cls(Digit, 4, -1), Close(1)>>, FALSE)>>

\* match[1].trim() of the first pattern that matches, else ''
FirstMatchTrimmed(patterns, text) ==
  The({LET k == FirstRule({j \in 1..Len(patterns) : ms[j].ok})
       IN IF k = 0 THEN "" ELSE trim(Group(text, ms[k], 1)) :
         ms \in {MatchEach(patterns, text)}})

\* match[1].trim() where the first pattern that matches left group 1 unset:
\* a TypeError
TrimOfUndefined(patterns, text) ==
  The({LET k == FirstRule({j \in 1..Len(patterns) : ms[j].ok})
       IN k # 0 /\ ms[k].caps[1][1] = 0 :
         ms \in {MatchEach(patterns, text)}})

\* EnhancedInvoiceParser.extractLineItems
extractLineItems(text) ==
  The({IF returnsEarly(table) THEN table
       ELSE IF returnsEarly(descriptionFirst) THEN descriptionFirst
       ELSE extractLineByLine(splitLines(text)) :
         table \in {extractTableFormat(text)},
         descriptionFirst \in {extractDescriptionFirst(splitLines(text))}})

\* InvoiceParser.extractLineItems
InvoiceParser_extractLineItems(text) ==
  The({IF Len(items1) # 0 THEN items1 ELSE IF Len(items2) # 0 THEN items2 ELSE Pattern3Items(text) :
         items1 \in {Pattern1Items(text)}, items2 \in {Pattern2Items(text)}})

\* InvoiceParser.parseInvoiceText: totalPatterns
parseInvoiceText_totalPatterns ==
  LET tail == <<Cls({":"}, 0, 1), Ws0, OptDollar, Ws0>> \o Money(1)
  IN <<Pat(<<Lit("TOTAL"), Ws1,
             Alt(<<<<Lit("DUE")>>, <<Lit("AMOUNT")>>, <<Lit("INVOICE")>>, <<>>>>)>> \o tail, TRUE),
       Pat(<<Alt(<<<<Lit("PLEASE PAY")>>, <<Lit("AMOUNT DUE")>>>>)>> \o tail, TRUE),
       Pat(<<Alt(<<<<Bol(TRUE)>>, <<Cls(Space, 1, 1)>>>>), Lit("TOTAL")>> \o tail, TRUE)>>

\* the total cascade of parseInvoiceText
parseInvoiceText_total(text) ==
  The({LET k == FirstRule({j \in 1..Len(parseInvoiceText_totalPatterns) : ms[j].ok})
       IN IF k = 0 THEN Zero ELSE parseMoney(Group(text, ms[k], 1)) :
         ms \in {MatchEach(parseInvoiceText_totalPatterns, text)}})

\* EnhancedInvoiceParser.extractComments: its patterns
enhancedCommentPatterns ==
  LET rest(lo, hi) == NotCls({"\n"}, lo, hi)
      po == Cls(WordChars \cup {"-"}, 1, -1)
  IN <<Pat(<<Lit("Note to customer"), LabelSep, Open(1), rest(10, 300), Close(1)>>, TRUE),
       Pat(<<Alt(<<<<Lit("ACH")>>, <<Lit("WIRE")>>, <<Lit("Bank")>>>>), Ws1,
             Alt(<<<<Lit("Routing")>>, <<Lit("Account")>>>>), rest(10, 200)>>, TRUE),
       Pat(<<Lit("PO"), Ws1, Alt(<<<<Lit("#")>>, <<Lit("Number")>>, <<>>>>), LabelSep, po>>, TRUE),
       Pat(<<Lit("Customer"), Ws1, Lit("PO"), Cls(Space \cup {"#", ":"}, 1, -1), po>>, TRUE)>>

\* InvoiceParser.extractComments: its patterns
commentPatterns ==
  LET rest(lo, hi) == NotCls({"\n"}, lo, hi)
      Labelled(label) == Pat(label \o ColonWs \o <<Open(1), rest(20, 200), Close(1)>>, TRUE)
  IN <<Labelled(<<Lit("NOTE")>>), Labelled(<<Lit("COMMENT")>>), Labelled(<<Lit("MEMO")>>),
       Labelled(<<Lit("SPECIAL INSTRUCTION"), Cls({"S"}, 0, 1)>>),
       Pat(<<Alt(<<<<Lit("ACH")>>, <<Lit("WIRE")>>, <<Lit("BANK")>>>>), Ws1,
             Alt(<<<<Lit("ROUTING")>>, <<Lit("ACCOUNT")>>>>), rest(20, 200)>>, TRUE),
       Pat(<<Lit("HEAT"), Ws1, Lit("NUMBER")>> \o ColonWs \o <<Cls(Digit, 1, -1)>>, TRUE),
       Pat(<<Alt(<<<<Lit("PO")>>, <<Lit("P.O.")>>, <<Lit("PURCHASE ORDER")>>>>),
             Opt(<<Ws1, Lit("#")>>)>> \o ColonWs \o <<Cls(WordChars \cup {"-"}, 1, -1)>>, TRUE)>>

\* the loops of extractComments from pattern k on: every match of every
\* pattern in turn; a comment longer than least is pushed unless it is there
\* already. preferGroup: the comment is match[1] || match[0], else match[0]
RECURSIVE CommentsFrom(_, _, _, _, _, _)
CommentsFrom(patterns, k, text, least, preferGroup, comments) ==
  IF k > Len(patterns) THEN comments
  ELSE LET ms == execAll(patterns[k].re, toLowerCase(text), 1)
           Comment(m) ==
             trim(IF preferGroup /\ Group(text, m, 1) # "" THEN Group(text, m, 1) ELSE Whole(text, m))
           Push(acc, j) ==
             IF Len(Comment(ms[j])) > least /\ \A c \in 1..Len(acc) : acc[c] # Comment(ms[j])
             THEN Append(acc, Comment(ms[j])) ELSE acc
           pushed[j \in 0..Len(ms)] == IF j = 0 THEN comments ELSE Push(pushed[j - 1], j)
       IN CommentsFrom(patterns, k + 1, text, least, preferGroup, pushed[Len(ms)])

\* EnhancedInvoiceParser.extractComments
extractComments(text) == CommentsFrom(enhancedCommentPatterns, 1, text, 5, TRUE, <<>>)

\* InvoiceParser.extractComments
InvoiceParser_extractComments(text) == CommentsFrom(commentPatterns, 1, text, 10, FALSE, <<>>)

\* the description generated from the first line item:
\* result.lineItems[0].description?.substring(0, 100) || ''
GeneratedDescription(result) ==
  IF result.description = "" /\ Len(result.lineItems) > 0
  THEN LET d == result.lineItems[1].description
       IN SubSeq(d, 1, IF Len(d) < 100 THEN Len(d) ELSE 100)
  ELSE result.description

\* texts handed to parseInvoiceText / intelligentExtract
FldTexts ==
  {"",
   "Invoice Date: 01/15/2025\nDue Date: 02/14/2025\nTerms: NET 30",
   "Date: 02Xyz25\nInvoice Date: 01/15/2025",
   "Date:02Oct25 Due:01Nov25",
   "Due Date: 01/15/2035\nPayment Due: 03/01/2025",
   "Dated 3-4-25\nPLEASE PAY BY 4/3/25",
   "Due: 09Zzz25\nDUE DATE: 10/09/2025",
   "Terms: Credit Card",
   "TERMS: C.O.D.",
   "Terms and conditions apply\nNET 30",
   "Payment due upon receipt",
   "Payment Terms: net 15 days\nTotal: $5.00",
   "hello world",
   "ACME SUPPLY LLC\nINVOICE\nInvoice No: INV-10234\n2 Hex bolt pack $4.00 $8.00\nTotal: $8.00",
   "Sold By: Bolt Depot Inc.\nInvoice # 88125\nMATERIAL 4 PCS @ 2.50 EA 10.00\nPLEASE PAY $10.00",
   "INVOICE\nFrom: Artec Industries LLC\nNote to customer: deliver to dock 4\nPO #: 7781-A",
   "Vendor: Rod & Reel Supply Co.\nNOTE: wire transfer only, no checks please\nPO 5521",
   "0 gizmo blue units $5.00\nInvoice 2025-0115",
   "Invoice No: 20251234\nTotal: $5.00",
   "Invoice # 2025\nINV-55123"}
\* the engine's answers for a string it parses by its own rules
EngineDates == {"", "2025-02-01"}

FldInit ==
  /\ fldText \in FldTexts
  /\ fldParser \in {"enhanced", "basic"}
  /\ fldPc = "supplier"
  /\ fldResult = EmptyInvoiceResult
  /\ engineDate \in EngineDates

\* result.supplier = this.extractSupplier(text) (the supplier cascade of parseInvoiceText)
Extract_Supplier ==
  /\ fldPc = "supplier"
  /\ IF fldParser = "basic" /\ TrimOfUndefined(supplierPatterns, fldText)
     THEN fldPc' = "threw" /\ UNCHANGED fldResult
     ELSE /\ fldResult' = [fldResult EXCEPT !.supplier = IF fldParser = "enhanced"
                                                           THEN extractSupplier(fldText)
                                                           ELSE parseInvoiceText_supplier(fldText)]
          /\ fldPc' = "invoiceId"
  /\ UNCHANGED <<fldText, fldParser, engineDate>>
  /\ UNCHANGED <<clsVars, ndVars, pdfVars, invVars, monVars, psVars, capVars, llVars, dpVars, ovVars, upVars>>

\* result.invoiceId = this.extractInvoiceId(text) (the invoice id cascade of parseInvoiceText)
Extract_InvoiceId ==
  /\ fldPc = "invoiceId"
  /\ IF fldParser = "basic" /\ TrimOfUndefined(invoiceIdPatterns, fldText)
     THEN fldPc' = "threw" /\ UNCHANGED fldResult
     ELSE /\ fldResult' = [fldResult EXCEPT !.invoiceId = IF fldParser = "enhanced"
                                                            THEN extractInvoiceId(fldText)
                                                            ELSE FirstMatchTrimmed(invoiceIdPatterns, fldText)]
          /\ fldPc' = "dates"
  /\ UNCHANGED <<fldText, fldParser, engineDate>>
  /\ UNCHANGED <<clsVars, ndVars, pdfVars, invVars, monVars, psVars, capVars, llVars, dpVars, ovVars, upVars>>

\* const dates = this.extractDates(text); result.invoiceDate = ...; result.dueDate = ...
\* (the two date cascades of parseInvoiceText)
Extract_Dates ==
  /\ fldPc = "dates"
  /\ \E dates \in {IF fldParser = "enhanced" THEN extractDates(fldText)
                     ELSE parseInvoiceText_dates(fldText)} :
       fldResult' = [fldResult EXCEPT !.invoiceDate = dates.invoiceDate,
                                      !.dueDate = dates.dueDate]
  /\ fldPc' = "terms"
  /\ UNCHANGED <<fldText, fldParser, engineDate>>
  /\ UNCHANGED <<clsVars, ndVars, pdfVars, invVars, monVars, psVars, capVars, llVars, dpVars, ovVars, upVars>>

\* result.netTerms = this.extractTerms(text) (the terms cascade of parseInvoiceText)
Extract_Terms ==
  /\ fldPc = "terms"
  /\ IF TrimOfUndefined(IF fldParser = "enhanced" THEN enhancedTermsPatterns ELSE termsPatterns,
                        fldText)
     THEN fldPc' = "threw" /\ UNCHANGED fldResult
     ELSE /\ fldResult' = [fldResult EXCEPT !.netTerms = IF fldParser = "enhanced"
                                                           THEN extractTerms(fldText)
                                                           ELSE parseInvoiceText_terms(fldText)]
          /\ fldPc' = "lineItems"
  /\ UNCHANGED <<fldText, fldParser, engineDate>>
  /\ UNCHANGED <<clsVars, ndVars, pdfVars, invVars, monVars, psVars, capVars, llVars, dpVars, ovVars, upVars>>

\* result.lineItems = this.extractLineItems(text)
Extract_LineItems ==
  /\ fldPc = "lineItems"
  /\ fldResult' = [fldResult EXCEPT !.lineItems = IF fldParser = "enhanced"
                                                    THEN extractLineItems(fldText)
                                                    ELSE InvoiceParser_extractLineItems(fldText)]
  /\ fldPc' = "total"
  /\ UNCHANGED <<fldText, fldParser, engineDate>>
  /\ UNCHANGED <<clsVars, ndVars, pdfVars, invVars, monVars, psVars, capVars, llVars, dpVars, ovVars, upVars>>

\* result.totalAmount = this.extractTotal(text) (the total cascade of parseInvoiceText)
Extract_Total ==
  /\ fldPc = "total"
  /\ fldResult' = [fldResult EXCEPT !.totalAmount = IF fldParser = "enhanced"
                                                      THEN extractTotal(fldText)
                                                      ELSE parseInvoiceText_total(fldText)]
  /\ fldPc' = "comments"
  /\ UNCHANGED <<fldText, fldParser, engineDate>>
  /\ UNCHANGED <<clsVars, ndVars, pdfVars, invVars, monVars, psVars, capVars, llVars, dpVars, ovVars, upVars>>

\* result.comments = this.extractComments(text)
Extract_Comments ==
  /\ fldPc = "comments"
  /\ fldResult' = [fldResult EXCEPT !.comments = IF fldParser = "enhanced"
                                                   THEN extractComments(fldText)
                                                   ELSE InvoiceParser_extractComments(fldText)]
  /\ fldPc' = "description"
  /\ UNCHANGED <<fldText, fldParser, engineDate>>
  /\ UNCHANGED <<clsVars, ndVars, pdfVars, invVars, monVars, psVars, capVars, llVars, dpVars, ovVars, upVars>>

\* the description generated from the line items; return result
Generate_Description ==
  /\ fldPc = "description"
  /\ fldResult' = [fldResult EXCEPT !.description = GeneratedDescription(fldResult)]
  /\ fldPc' = "done"
  /\ UNCHANGED <<fldText, fldParser, engineDate>>
  /\ UNCHANGED <<clsVars, ndVars, pdfVars, invVars, monVars, psVars, capVars, llVars, dpVars, ovVars, upVars>>

\* no parser runs; the other components hand new Date no string with a digit
FldIdle ==
  /\ fldText = ""
  /\ fldParser = "enhanced"
  /\ fldPc = "idle"
  /\ fldResult = EmptyInvoiceResult
  /\ engineDate = ""

-----------------------------------------------------------------------------
(* Money: parseMoney of the parsers, parseMoney and fmtMoney of the form   *)

\* a value handed to parseMoney: a string or a number
MoneyString(s) == [t |-> "string", s |-> s, num |-> Zero]
MoneyNumber(num) == [t |-> "number", s |-> "", num |-> num]

\* EnhancedInvoiceParser.parseMoney (InvoiceParser.parseMoney has the same body)
EnhancedInvoiceParser_parseMoney(value) ==
  IF value.t = "number" THEN value.num ELSE parseMoney(value.s)

\* s.replace(/[^0-9.-]/g, '')
RECURSIVE KeepNumeric(_)
KeepNumeric(s) ==
  IF Len(s) <= 1 THEN (IF s \in Digit \cup {".", "-"} THEN s ELSE "")
  ELSE KeepNumeric(SubSeq(s, 1, Len(s) \div 2)) \o KeepNumeric(SubSeq(s, Len(s) \div 2 + 1, Len(s)))

\* Number(str) of a string of digits, dots and minus signs: the number when
\* the whole string is one decimal literal, else NaN
ToNumber(str) ==
  LET p == IF CharAt(str, 1) = "-" THEN 2 ELSE 1
      intLen == Run(str, p, Digit, FALSE, -1)
      hasDot == CharAt(str, p + intLen) = "."
      fracLen == IF hasDot THEN Run(str, p + intLen + 1, Digit, FALSE, -1) ELSE 0
      used == (p - 1) + intLen + (IF hasDot THEN 1 ELSE 0) + fracLen
  IN IF used = Len(str) THEN parseFloat(str) ELSE NaN

\* const parseMoney = (s) => Number(String(s || '').replace(/[^0-9.-]/g, '') || 0), s a string
script_parseMoney(s) ==
  LET kept == KeepNumeric(s)
  IN IF kept = "" THEN Zero ELSE ToNumber(kept)

\* the decimal digits of a natural number
RECURSIVE ToDigits(_)
ToDigits(n) ==
  IF n < 10 THEN SubSeq(Digits, n + 1, n + 1) ELSE ToDigits(n \div 10) \o ToDigits(n % 10)

\* the grouping of en-US: a comma before every group of three digits
RECURSIVE GroupThousands(_)
GroupThousands(digits) ==
  IF Len(digits) <= 3 THEN digits
  ELSE GroupThousands(SubSeq(digits, 1, Len(digits) - 3)) \o "," \o
       SubSeq(digits, Len(digits) - 2, Len(digits))

\* the symbol Intl.NumberFormat('en-US') prints for a currency
CurrencySymbol == [cur \in {"USD", "CAD"} |-> IF cur = "USD" THEN "$" ELSE "CA$"]

\* fmtMoney(n, cur) for a finite or NaN n and a currency Intl knows:
\* Number(n || 0) in two decimals, rounded to the nearest cent
fmtMoney(n, cur) ==
  LET v == IF Falsy(n) THEN Zero ELSE n
      cents == (2 * 100 * Abs(v.n) + v.d) \div (2 * v.d)
  IN (IF v.n < 0 THEN "-" ELSE "") \o CurrencySymbol[cur] \o
     GroupThousands(ToDigits(cents \div 100)) \o "." \o padStart(ToDigits(cents % 100), 2)

\* strings a parser or the form hands to parseMoney; none lies halfway
\* between two cents
MoneyStrings ==
  {"", "$1,234.56", "12.346", "12.344", "abc", "-5.00", "1.2.3", "-", "0.20000", "$0.99",
   "1,000", "N/A", "(5.00)", "5-", ".5", "100", "$ 42.10", "USD 7"}
MoneyNumbers == {NaN, Int2Num(-5), Int2Num(3), Rat(5, 2)}
MoneyInputs ==
  {MoneyString(s) : s \in MoneyStrings} \cup {MoneyNumber(x) : x \in MoneyNumbers}

ParseMoneyOf(which, value) ==
  IF which = "parser" THEN EnhancedInvoiceParser_parseMoney(value) ELSE script_parseMoney(value.s)

\* the form reads its values from input elements, which hold strings
MonInit ==
  /\ monInput \in MoneyInputs
  /\ monWhich \in {"parser", "form"}
  /\ monWhich = "form" => monInput.t = "string"
  /\ monCurrency \in DOMAIN CurrencySymbol
  /\ monPc = "start"
  /\ monValue = Zero
  /\ monText = ""
  /\ monAgain = Zero

\* v = parseMoney(s)
Money_Parse ==
  /\ monPc = "start"
  /\ monValue' = ParseMoneyOf(monWhich, monInput)
  /\ monPc' = "parsed"
  /\ UNCHANGED <<monInput, monWhich, monCurrency, monText, monAgain>>
  /\ UNCHANGED <<clsVars, ndVars, pdfVars, invVars, fldVars, psVars, capVars, llVars, dpVars, ovVars, upVars>>

\* fmtMoney(v)
Money_Format ==
  /\ monPc = "parsed"
  /\ monText' = fmtMoney(monValue, monCurrency)
  /\ monPc' = "formatted"
  /\ UNCHANGED <<monInput, monWhich, monCurrency, monValue, monAgain>>
  /\ UNCHANGED <<clsVars, ndVars, pdfVars, invVars, fldVars, psVars, capVars, llVars, dpVars, ovVars, upVars>>

\* parseMoney(fmtMoney(v))
Money_Reparse ==
  /\ monPc = "formatted"
  /\ monAgain' = ParseMoneyOf(monWhich, MoneyString(monText))
  /\ monPc' = "reparsed"
  /\ UNCHANGED <<monInput, monWhich, monCurrency, monValue, monText>>
  /\ UNCHANGED <<clsVars, ndVars, pdfVars, invVars, fldVars, psVars, capVars, llVars, dpVars, ovVars, upVars>>

MonIdle ==
  /\ monInput = MoneyString("")
  /\ monWhich = "parser"
  /\ monCurrency = "USD"
  /\ monPc = "idle"
  /\ monValue = Zero
  /\ monText = ""
  /\ monAgain = Zero

-----------------------------------------------------------------------------
(* data-persistence.js, and the handlers of the remittance form that end in render() *)

STORAGE_KEYS ==
  [REMITTANCE_STATE |-> "remittance_current_state",
   REMITTANCE_HISTORY |-> "remittance_history",
   INVOICE_STATE |-> "invoice_current_state",
   INVOICE_HISTORY |-> "invoice_history",
   AUTO_SAVE_ENABLED |-> "auto_save_enabled"]

\* saveToHistory(STORAGE_KEYS.REMITTANCE_STATE, record): const historyKey = key + '_history'
historyKey == STORAGE_KEYS.REMITTANCE_STATE \o "_history"

\* the keys the remittance form reads or writes
StorageKeys == {STORAGE_KEYS.REMITTANCE_STATE, historyKey, STORAGE_KEYS.AUTO_SAVE_ENABLED}

\* localStorage.setItem(key, value)
setItem(storage, key, value) == [storage EXCEPT ![key] = <<value>>]

\* localStorage.removeItem(key)
removeItem(storage, key) == [storage EXCEPT ![key] = <<>>]

\* _getAutoSaveEnabled(): saved === null ? true : saved === 'true'
getAutoSaveEnabled(storage) ==
  LET saved == storage[STORAGE_KEYS.AUTO_SAVE_ENABLED]
  IN IF saved = <<>> THEN TRUE ELSE saved[1] = "true"

\* saveState(key, state): the timer after the call (clearTimeout, then setTimeout)
saveState(enabled, timer) == IF ~enabled THEN timer ELSE "armed"

\* render() of the remittance form, as far as the storage goes: saveRemittanceState(state)
render(enabled, timer) == saveState(enabled, timer)

\* the object the timer's callback serialises: {...state, _savedAt, _version}
SavedState(st) == [state |-> st, version |-> "1.0"]

\* hasUnsavedData(key); recent is ageMinutes < 5
hasUnsavedData(storage, recent) ==
  LET item == storage[STORAGE_KEYS.REMITTANCE_STATE]
  IN item # <<>> /\ recent /\ Len(item[1].state.invoices) > 0

\* getHistory(historyKey): [] when the item is null
getHistory(storage) ==
  LET data == storage[historyKey] IN IF data = <<>> THEN <<>> ELSE data[1]

validateCustomerName(name) == trim(name) # "" /\ Len(name) >= 2 /\ Len(name) <= 200

\* validateDate(dateStr): a string without a digit is an Invalid Date; parses is what the
\* engine makes of another string (!isNaN(date.getTime())), future is date > yearFromNow
validateDate(dateStr, parses, future) ==
  /\ dateStr # ""
  /\ \E i \in 1..Len(dateStr) : SubSeq(dateStr, i, i) \in Digit
  /\ parses
  /\ ~future

\* validateAmount(amount) of a number
validateAmount(amount) ==
  LET num == IF isFinite(amount) THEN amount ELSE App_parseMoney(amount)
  IN ~isNaN(num) /\ ~Less(num, Zero) /\ ~Less(Int2Num(1000000000), num)

\* the values typed into #payer, #paydate and #amountReceived
PayerInputs == {"", "Acme Corp"}
PaydateInputs == {"2025-01-15"}
AmountInputs == {"", "$250.00"}
\* the text layers of the documents uploaded
UploadTexts == {GenericText, HeaderOnlyText}
\* the records the history may hold before the model stops recording payments
MaxRecords == 1

PsInit ==
  /\ psPage = "loading"
  /\ psState = initialState
  /\ localStorage \in {[k \in StorageKeys |-> IF k = STORAGE_KEYS.AUTO_SAVE_ENABLED THEN s ELSE <<>>] :
                         s \in {<<>>, <<"false">>}}
  /\ autoSaveEnabled = getAutoSaveEnabled(localStorage)
  /\ saveDebounceTimer = "null"
  /\ saveRequested = FALSE

\* window 'load': promptRestoreData, then render() unless there is unsaved data
Window_Load ==
  /\ psPage = "loading"
  /\ \E recent \in BOOLEAN, confirmed \in BOOLEAN :
       LET unsaved == hasUnsavedData(localStorage, recent)
       IN /\ psState' = IF unsaved /\ confirmed
                        THEN localStorage[STORAGE_KEYS.REMITTANCE_STATE][1].state
                        ELSE psState
          /\ localStorage' = IF unsaved /\ ~confirmed
                             THEN removeItem(localStorage, STORAGE_KEYS.REMITTANCE_STATE)
                             ELSE localStorage
  /\ saveDebounceTimer' = render(autoSaveEnabled, saveDebounceTimer)
  /\ psPage' = "ready"
  /\ UNCHANGED <<autoSaveEnabled, saveRequested>>
  /\ UNCHANGED <<clsVars, ndVars, pdfVars, invVars, fldVars, monVars, capVars, llVars, dpVars, ovVars, upVars>>

\* $('#payer').oninput
Input_Payer ==
  /\ psPage = "ready"
  /\ \E v \in PayerInputs : psState' = [psState EXCEPT !.payer = v]
  /\ saveDebounceTimer' = render(autoSaveEnabled, saveDebounceTimer)
  /\ UNCHANGED <<psPage, autoSaveEnabled, localStorage, saveRequested>>
  /\ UNCHANGED <<clsVars, ndVars, pdfVars, invVars, fldVars, monVars, capVars, llVars, dpVars, ovVars, upVars>>

\* $('#paydate').oninput
Input_Paydate ==
  /\ psPage = "ready"
  /\ \E v \in PaydateInputs : psState' = [psState EXCEPT !.date = v]
  /\ saveDebounceTimer' = render(autoSaveEnabled, saveDebounceTimer)
  /\ UNCHANGED <<psPage, autoSaveEnabled, localStorage, saveRequested>>
  /\ UNCHANGED <<clsVars, ndVars, pdfVars, invVars, fldVars, monVars, capVars, llVars, dpVars, ovVars, upVars>>

\* $('#amountReceived').oninput
Input_AmountReceived ==
  /\ psPage = "ready"
  /\ \E v \in AmountInputs : psState' = [psState EXCEPT !.amountReceived = script_parseMoney(v)]
  /\ saveDebounceTimer' = render(autoSaveEnabled, saveDebounceTimer)
  /\ UNCHANGED <<psPage, autoSaveEnabled, localStorage, saveRequested>>
  /\ UNCHANGED <<clsVars, ndVars, pdfVars, invVars, fldVars, monVars, capVars, llVars, dpVars, ovVars, upVars>>

\* $('#btnClear').onclick: resetState()
Click_Clear ==
  /\ psPage = "ready"
  /\ psState' = initialState
  /\ saveDebounceTimer' = render(autoSaveEnabled, saveDebounceTimer)
  /\ UNCHANGED <<psPage, autoSaveEnabled, localStorage, saveRequested>>
  /\ UNCHANGED <<clsVars, ndVars, pdfVars, invVars, fldVars, monVars, capVars, llVars, dpVars, ovVars, upVars>>

\* handleFile once parseFile has returned the result read from the text of the document:
\* without invoices it throws and nothing is rendered, else the result is applied and rendered
HandleFile_Captured ==
  /\ psPage = "ready"
  /\ \E text \in UploadTexts :
       \E result \in {parseByFormat(text)} :
          IF Len(result.invoices) = 0
          THEN UNCHANGED <<psState, saveDebounceTimer>>
          ELSE /\ psState' = ApplyResult(result)
               /\ saveDebounceTimer' = render(autoSaveEnabled, saveDebounceTimer)
  /\ UNCHANGED <<psPage, autoSaveEnabled, localStorage, saveRequested>>
  /\ UNCHANGED <<clsVars, ndVars, pdfVars, invVars, fldVars, monVars, capVars, llVars, dpVars, ovVars, upVars>>

\* $('#btnSave').onclick: the validations, the confirmation, saveRemittanceRecord and,
\* when the user starts a new entry, resetState()
Click_Save ==
  /\ psPage = "ready"
  /\ Len(getHistory(localStorage)) < MaxRecords
  /\ saveRequested' = TRUE
  /\ \E parses \in BOOLEAN, future \in BOOLEAN, confirmed \in BOOLEAN, startNew \in BOOLEAN :
       LET valid == /\ validateCustomerName(psState.payer)
                    /\ (psState.date = "" \/ validateDate(psState.date, parses, future))
                    /\ validateAmount(psState.amountReceived)
                    /\ Len(psState.invoices) # 0
           history == getHistory(localStorage)
       IN IF valid /\ confirmed
          THEN /\ localStorage' =
                    setItem(localStorage, historyKey, <<psState>> \o history)
               /\ IF startNew
                  THEN /\ psState' = initialState
                       /\ saveDebounceTimer' = render(autoSaveEnabled, saveDebounceTimer)
                  ELSE UNCHANGED <<psState, saveDebounceTimer>>
          ELSE UNCHANGED <<psState, saveDebounceTimer, localStorage>>
  /\ UNCHANGED <<psPage, autoSaveEnabled>>
  /\ UNCHANGED <<clsVars, ndVars, pdfVars, invVars, fldVars, monVars, capVars, llVars, dpVars, ovVars, upVars>>

\* the callback saveState handed to setTimeout runs: localStorage.setItem(key, JSON.stringify(data))
SaveState_Timeout ==
  /\ saveDebounceTimer = "armed"
  /\ localStorage' = setItem(localStorage, STORAGE_KEYS.REMITTANCE_STATE, SavedState(psState))
  /\ saveDebounceTimer' = "elapsed"
  /\ UNCHANGED <<psPage, psState, autoSaveEnabled, saveRequested>>
  /\ UNCHANGED <<clsVars, ndVars, pdfVars, invVars, fldVars, monVars, capVars, llVars, dpVars, ovVars, upVars>>

\* the page is loaded again: the module runs anew (new DataPersistence(), state = initialState()),
\* the pending timer is gone and the storage stays
Page_Reload ==
  /\ psPage = "ready"
  /\ psPage' = "loading"
  /\ psState' = initialState
  /\ autoSaveEnabled' = getAutoSaveEnabled(localStorage)
  /\ saveDebounceTimer' = "null"
  /\ UNCHANGED <<localStorage, saveRequested>>
  /\ UNCHANGED <<clsVars, ndVars, pdfVars, invVars, fldVars, monVars, capVars, llVars, dpVars, ovVars, upVars>>

PsIdle ==
  /\ psPage = "idle"
  /\ psState = initialState
  /\ autoSaveEnabled = TRUE
  /\ saveDebounceTimer = "null"
  /\ localStorage = [k \in StorageKeys |-> <<>>]
  /\ saveRequested = FALSE

-----------------------------------------------------------------------------
(* Uploads that overlap or follow one another: handleFile of the two remittance forms *)
(* (part_004 with its own parsePDF, part_005 with RemittanceParser) on the variable state *)

\* let state = { payer: '', date: '', amountReceived: 0, invoices: [] } (part_004)
Part004_initialState == [payer |-> "", date |-> "", amountReceived |-> Zero, invoices |-> <<>>]

\* normalizeDate of part_004, for a string
Part004_normalizeDate(v) ==
  IF v = "" THEN ""
  ELSE LET str == trim(v)
           mdy == match(ReMdy, str)
           ymd == match(ReAppYmd, str)
       IN IF mdy.ok
          THEN LET y == Group(str, mdy, 3)
                   yyyy == IF Len(y) = 2 THEN "20" \o y ELSE y
               IN padStart(yyyy, 4) \o "-" \o padStart(Group(str, mdy, 1), 2) \o "-" \o
                  padStart(Group(str, mdy, 2), 2)
          ELSE IF ymd.ok
          THEN Group(str, ymd, 1) \o "-" \o padStart(Group(str, ymd, 2), 2) \o "-" \o
               padStart(Group(str, ymd, 3), 2)
          ELSE ""

\* upsertInvoice(partial) of part_004 on state.invoices
Part004_upsertInvoice_RawFind(rows, partial) ==
  LET id == trim(partial.invoice)
      found == {k \in 1..Len(rows) : rows[k].invoice = id}
  IN IF id = "" THEN rows
     ELSE IF found # {}
     THEN [rows EXCEPT ![CHOOSE j \in found : \A i \in found : j <= i] = partial]
     ELSE Append(rows,
                 [invoice |-> id,
                  open |-> OrElse(OrElse(partial.open, partial.applied), Zero),
                  applied |-> OrElse(partial.applied, Zero),
                  date |-> partial.date])
Part004_upsertInvoice(rows, partial) ==
  LET id == trim(partial.invoice)
      found == {k \in 1..Len(rows) : trim(rows[k].invoice) = id}
  IN IF id = "" THEN rows
     ELSE IF found # {}
     THEN [rows EXCEPT ![CHOOSE j \in found : \A i \in found : j <= i] = partial]
     ELSE Append(rows,
                 [invoice |-> id,
                  open |-> OrElse(OrElse(partial.open, partial.applied), Zero),
                  applied |-> OrElse(partial.applied, Zero),
                  date |-> partial.date])

\* /(?:From|Payer|Remitter|Customer)[:\-\s]*([A-Za-z0-9 &.,'\-]+)/i
RePayer ==
  IgnoreCase(<<Alt(<<<<Lit("From")>>, <<Lit("Payer")>>, <<Lit("Remitter")>>, <<Lit("Customer")>>>>),
               Cls(Space \cup {":", "-"}, 0, -1), Open(1),
               Cls(Letter \cup Digit \cup {" ", "&", ".", ",", "'", "-"}, 1, -1), Close(1)>>)

\* /(?:Date|Payment Date|Remittance Date)[:\s]*([A-Za-z]{3,9}\s+\d{1,2},\s*\d{4}|
\*   \d{1,2}[\/\-]\d{1,2}[\/\-]\d{2,4}|\d{4}[\-\/]\d{1,2}[\-\/]\d{1,2})/i
RePaymentDate ==
  IgnoreCase(<<Alt(<<<<Lit("Date")>>, <<Lit("Payment Date")>>, <<Lit("Remittance Date")>>>>),
               Cls(Space \cup {":"}, 0, -1), Open(1),
               Alt(<<<<Cls(Letter, 3, 9), Ws1, Cls(Digit, 1, 2), Lit(","), Ws0, Cls(Digit, 4, 4)>>,
                     <<Cls(Digit, 1, 2), Cls({"/", "-"}, 1, 1), Cls(Digit, 1, 2),
                       Cls({"/", "-"}, 1, 1), Cls(Digit, 2, 4)>>,
                     <<Cls(Digit, 4, 4), Cls({"/", "-"}, 1, 1), Cls(Digit, 1, 2),
                       Cls({"/", "-"}, 1, 1), Cls(Digit, 1, 2)>>>>),
               Close(1)>>)

\* invRegex: /(invoice|inv|bill)[#:\s-]*([A-Za-z0-9_-]{2,})/i
invRegex ==
  IgnoreCase(<<Open(1), Alt(<<<<Lit("invoice")>>, <<Lit("inv")>>, <<Lit("bill")>>>>), Close(1),
               Cls(Space \cup {"#", ":", "-"}, 0, -1), Open(2),
               Cls(Letter \cup Digit \cup {"_", "-"}, 2, -1), Close(2)>>)

\* amtRegex: /(\$?[-+]?\d{1,3}(?:,\d{3})*(?:\.\d{2}))/, the group (?:,\d{3})* unrolled twice
amtRegex ==
  <<Open(1), OptDollar, Cls({"-", "+"}, 0, 1), Cls(Digit, 1, 3),
    Opt(<<Lit(","), Cls(Digit, 3, 3), Opt(<<Lit(","), Cls(Digit, 3, 3)>>)>>),
    Lit("."), Cls(Digit, 2, 2), Close(1)>>

\* /\b\d{1,2}[\/\-]\d{1,2}[\/\-]\d{2,4}\b/
ReLineDate ==
  <<Wb, Cls(Digit, 1, 2), Cls({"/", "-"}, 1, 1), Cls(Digit, 1, 2), Cls({"/", "-"}, 1, 1),
    Cls(Digit, 2, 4), Wb>>

\* /(?:Total\s+(?:Paid|Payment|Amount))[:\s]*\$?([\d,]+\.\d{2})/i
ReTotalPaid ==
  IgnoreCase(<<Lit("Total"), Ws1, Alt(<<<<Lit("Paid")>>, <<Lit("Payment")>>, <<Lit("Amount")>>>>),
               Cls(Space \cup {":"}, 0, -1), OptDollar>> \o Money(1))

\* fullText.split(/\n+/).map(s => s.trim()).filter(Boolean)
RECURSIVE Part004_lines(_)
Part004_lines(text) ==
  LET a == Run(text, 1, {"\n"}, TRUE, -1)
      b == Run(text, a + 1, {"\n"}, FALSE, -1)
      first == trim(SubSeq(text, 1, a))
      rest == IF a = Len(text) THEN <<>> ELSE Part004_lines(SubSeq(text, a + b + 1, Len(text)))
  IN IF first = "" THEN rest ELSE <<first>> \o rest

\* lines.forEach((ln, i) => ...) of parsePDF from line i on
RECURSIVE Part004_invoiceLines(_, _, _)
Part004_invoiceLines(rows, lines, i) ==
  IF i > Len(lines) THEN rows
  ELSE LET ln == lines[i]
           invM == matchI(invRegex, ln)
           own == match(amtRegex, ln)
           next == IF i + 1 <= Len(lines) THEN match(amtRegex, lines[i + 1]) ELSE NoMatch
           amtStr == IF own.ok THEN Group(ln, own, 1)
                     ELSE IF next.ok THEN Group(lines[i + 1], next, 1) ELSE ""
           dM == match(ReLineDate, ln)
           dStr == IF dM.ok THEN Whole(ln, dM) ELSE ""
       IN Part004_invoiceLines(
            IF invM.ok
            THEN Part004_upsertInvoice(rows,
                   [invoice |-> Group(ln, invM, 2), applied |-> script_parseMoney(amtStr),
                    open |-> script_parseMoney(amtStr), date |-> Part004_normalizeDate(dStr)])
            ELSE rows,
            lines, i + 1)

\* parsePDF of part_004 once the page loop has ended: what it makes of state
Part004_parsePDF(st, text) ==
  LET payerMatch == matchI(RePayer, text)
      dateMatch == matchI(RePaymentDate, text)
      totalMatch == matchI(ReTotalPaid, text)
      rows == Part004_invoiceLines(st.invoices, Part004_lines(text), 1)
  IN [payer |-> IF payerMatch.ok /\ st.payer = "" THEN trim(Group(text, payerMatch, 1))
                ELSE st.payer,
      date |-> IF dateMatch.ok /\ st.date = "" THEN Part004_normalizeDate(Group(text, dateMatch, 1))
               ELSE st.date,
      amountReceived |->
        IF ~Falsy(st.amountReceived) THEN st.amountReceived
        ELSE IF totalMatch.ok THEN script_parseMoney(Group(text, totalMatch, 1))
        ELSE SumApplied(rows),
      invoices |-> rows]

\* fullText += '\n' + content.items.map(i => i.str).join('\n')
RECURSIVE JoinNewline(_)
JoinNewline(strs) ==
  IF strs = <<>> THEN ""
  ELSE IF Len(strs) = 1 THEN strs[1] ELSE strs[1] \o "\n" \o JoinNewline(Tail(strs))

Part004_appendPage(text, page) == text \o "\n" \o JoinNewline(page)

\* fullText of parsePDF of part_004 when its page loop has ended
RECURSIVE Part004_text(_)
Part004_text(pages) ==
  IF pages = <<>> THEN ""
  ELSE Part004_appendPage(Part004_text(SubSeq(pages, 1, Len(pages) - 1)), pages[Len(pages)])

\* the text RemittanceParser.parsePDF reads from the text layer of a file
RECURSIVE Part005_text(_)
Part005_text(pages) ==
  IF pages = <<>> THEN ""
  ELSE Part005_text(SubSeq(pages, 1, Len(pages) - 1)) \o JoinSpace(pages[Len(pages)]) \o "\n"

\* the files uploaded: per page the text fragments of its text layer (every text
\* layer is long enough for RemittanceParser to take it without OCR)
AcmeFile ==
  <<<<"Payer: Acme Corp", "Payment Number: PAY-1001 Date: 01/15/2025", "Invoice 12345 amount 250.00">>>>
BoltFile ==
  <<<<"Customer: Bolt Depot", "Check Number: 7002 Payment Date 02/20/2025">>,
    <<"Invoice 67890 amount 75.50", "Inv 67891 amount 1,024.50 02/21/2025", "Total Paid: $1,100.00">>>>
BillFile ==
  <<<<"From: Acme Corp", "Remittance Date: 2025-03-01", "Bill 12345 paid in full", "$300.00">>>>
Files == {AcmeFile, BoltFile, BillFile}

\* the invocations of handleFile that may overlap
Calls == {"first", "second"}

IdleCall == [file |-> <<>>, pc |-> "idle", p |-> 0, fullText |-> ""]

CapInit ==
  /\ capForm \in {"part_004", "part_005"}
  /\ capState = IF capForm = "part_004" THEN Part004_initialState ELSE initialState
  /\ capCall = [c \in Calls |-> IdleCall]

\* handleFile(f) up to its first await (part_004: in parsePDF, let fullText = '';
\* part_005: await parser.parseFile(f))
HandleFile_Begin ==
  /\ \E c \in Calls, f \in Files :
       /\ capCall[c].pc = "idle"
       /\ capCall' = [capCall EXCEPT ![c] = [file |-> f, pc |-> "reading", p |-> 1, fullText |-> ""]]
  /\ UNCHANGED <<capForm, capState>>
  /\ UNCHANGED <<clsVars, ndVars, pdfVars, invVars, fldVars, monVars, psVars, llVars, dpVars, ovVars, upVars>>

\* parsePDF of part_004 resumes with the text content of page p; after the last
\* page it goes on, without another await, to fill state from fullText
Part004_ParsePDF_Page ==
  /\ capForm = "part_004"
  /\ \E c \in Calls :
       /\ capCall[c].pc = "reading"
       /\ \E call \in {capCall[c]} :
          \E text \in {Part004_appendPage(call.fullText, call.file[call.p])} :
             IF call.p < Len(call.file)
             THEN /\ capCall' = [capCall EXCEPT ![c].fullText = text, ![c].p = call.p + 1]
                  /\ UNCHANGED capState
             ELSE /\ capCall' = [capCall EXCEPT ![c].fullText = text, ![c].pc = "parsed"]
                  /\ capState' = Part004_parsePDF(capState, text)
  /\ UNCHANGED capForm
  /\ UNCHANGED <<clsVars, ndVars, pdfVars, invVars, fldVars, monVars, psVars, llVars, dpVars, ovVars, upVars>>

\* handleFile of part_004 resumes after await parsePDF(f): render()
Part004_HandleFile_Render ==
  /\ capForm = "part_004"
  /\ \E c \in Calls :
       /\ capCall[c].pc = "parsed"
       /\ capCall' = [capCall EXCEPT ![c].pc = "done"]
  /\ UNCHANGED <<capForm, capState>>
  /\ UNCHANGED <<clsVars, ndVars, pdfVars, invVars, fldVars, monVars, psVars, llVars, dpVars, ovVars, upVars>>

\* handleFile of part_005 resumes after await parser.parseFile(f): without invoices it
\* throws, else state = initialState(), the result is applied and rendered
Part005_HandleFile_Resume ==
  /\ capForm = "part_005"
  /\ \E c \in Calls :
       /\ capCall[c].pc = "reading"
       /\ \E result \in {parseByFormat(Part005_text(capCall[c].file))} :
            IF Len(result.invoices) = 0
            THEN /\ capCall' = [capCall EXCEPT ![c].pc = "failed"]
                 /\ UNCHANGED capState
            ELSE /\ capCall' = [capCall EXCEPT ![c].pc = "done"]
                 /\ capState' = ApplyResult(result)
  /\ UNCHANGED capForm
  /\ UNCHANGED <<clsVars, ndVars, pdfVars, invVars, fldVars, monVars, psVars, llVars, dpVars, ovVars, upVars>>

CapIdle ==
  /\ capForm = "part_005"
  /\ capState = initialState
  /\ capCall = [c \in Calls |-> IdleCall]

-----------------------------------------------------------------------------
(* LibraryLoader (lib-loader.js) *)

\* the library names load is called with, and the load(name, config) calls
Names == {"xlsx"}
Callers == {"c1", "c2"}
\* loadingPromises.get(name) when the map has no entry for name
NoPromise == [p |-> 0]
\* setInterval(..., 50) and setTimeout(..., 2000) of script.onload
PollMs == 50
GiveUpMs == 2000

\* this.loadingPromises.has(name)
has_Never(promises, name) == FALSE
has(promises, name) == promises[name] # NoPromise

\* the script element and the timers _loadScript creates for promise p of _loadLibrary
NewScript(p, url) ==
  [of |-> p, url |-> url, net |-> "loading", settled |-> "pending", timeoutId |-> TRUE,
   checkInterval |-> FALSE, giveUp |-> FALSE, ticks |-> 0]
\* resolve(...) and reject(...) of a promise: the first call settles it.  The
\* timers of a script whose promise is settled are left out of the state: all
\* their callbacks do is call resolve or reject again, which changes nothing
Settle(script, how) ==
  IF script.settled # "pending" THEN script
  ELSE [script EXCEPT !.settled = how, !.timeoutId = FALSE, !.checkInterval = FALSE,
                      !.giveUp = FALSE, !.ticks = 0]
\* the _loadScript promise _loadLibrary p is awaiting
ScriptOf(p, url) == CHOOSE s \in 1..Len(scripts) : scripts[s].of = p /\ scripts[s].url = url

IdleCaller == [pc |-> "idle", name |-> "", promise |-> 0, how |-> ""]

LlInit ==
  /\ loadedLibraries = {}
  /\ loadingPromises = [n \in Names |-> NoPromise]
  /\ loadPromises = <<>>
  /\ scripts = <<>>
  /\ windowGlobal \in [Names -> BOOLEAN]
  /\ loadCall = [c \in Callers |-> IdleCaller]

\* load(name, config) up to its await, with _loadLibrary up to its first await
\* and the synchronous body of _loadScript
Load ==
  /\ \E c \in Callers, name \in Names :
       /\ loadCall[c].pc = "idle"
       /\ IF name \in loadedLibraries
          THEN /\ loadCall' = [loadCall EXCEPT ![c] = [pc |-> "resolved", name |-> name,
                                                       promise |-> 0, how |-> "loaded"]]
               /\ UNCHANGED <<loadingPromises, loadPromises, scripts>>
          ELSE IF has(loadingPromises, name)
          THEN /\ loadCall' = [loadCall EXCEPT ![c] = [pc |-> "waiting", name |-> name,
                                                       promise |-> loadingPromises[name].p,
                                                       how |-> "shared"]]
               /\ UNCHANGED <<loadingPromises, loadPromises, scripts>>
          ELSE /\ IF windowGlobal[name]
                  THEN /\ loadPromises' = Append(loadPromises, [name |-> name, state |-> "resolved",
                                                                stage |-> "returned"])
                       /\ UNCHANGED scripts
                  ELSE /\ loadPromises' = Append(loadPromises, [name |-> name, state |-> "pending",
                                                                stage |-> "primary"])
                       /\ scripts' = Append(scripts, NewScript(Len(loadPromises) + 1, "primary"))
               /\ loadingPromises' = [loadingPromises EXCEPT ![name] = [p |-> Len(loadPromises) + 1]]
               /\ loadCall' = [loadCall EXCEPT ![c] = [pc |-> "awaiting", name |-> name,
                                                       promise |-> Len(loadPromises) + 1,
                                                       how |-> "started"]]
  /\ UNCHANGED <<loadedLibraries, windowGlobal>>
  /\ UNCHANGED <<clsVars, ndVars, pdfVars, invVars, fldVars, monVars, psVars, capVars, dpVars, ovVars, upVars>>

\* load after await loadPromise: the try block goes on or the catch block runs
Load_Resume ==
  /\ \E c \in Callers :
       /\ loadCall[c].pc = "awaiting"
       /\ loadPromises[loadCall[c].promise].state # "pending"
       /\ loadedLibraries' = IF loadPromises[loadCall[c].promise].state = "resolved"
                             THEN loadedLibraries \cup {loadCall[c].name} ELSE loadedLibraries
       /\ loadingPromises' = [loadingPromises EXCEPT ![loadCall[c].name] = NoPromise]
       /\ loadCall' = [loadCall EXCEPT ![c].pc = loadPromises[loadCall[c].promise].state]
  /\ UNCHANGED <<loadPromises, scripts, windowGlobal>>
  /\ UNCHANGED <<clsVars, ndVars, pdfVars, invVars, fldVars, monVars, psVars, capVars, dpVars, ovVars, upVars>>

\* return this.loadingPromises.get(name): the call settles as that promise does
Load_Return ==
  /\ \E c \in Callers :
       /\ loadCall[c].pc = "waiting"
       /\ loadPromises[loadCall[c].promise].state # "pending"
       /\ loadCall' = [loadCall EXCEPT ![c].pc = loadPromises[loadCall[c].promise].state]
  /\ UNCHANGED <<loadedLibraries, loadingPromises, loadPromises, scripts, windowGlobal>>
  /\ UNCHANGED <<clsVars, ndVars, pdfVars, invVars, fldVars, monVars, psVars, capVars, dpVars, ovVars, upVars>>

\* _loadLibrary after await this._loadScript(...): return lib, the fallback
\* CDN, or the Error for both CDNs
LoadLibrary_Resume ==
  /\ \E p \in 1..Len(loadPromises) :
       /\ loadPromises[p].stage \in {"primary", "fallback"}
       /\ \E script \in {scripts[ScriptOf(p, loadPromises[p].stage)]} :
            /\ script.settled # "pending"
            /\ IF script.settled = "resolved"
               THEN /\ loadPromises' = [loadPromises EXCEPT ![p].state = "resolved",
                                                            ![p].stage = "returned"]
                    /\ UNCHANGED scripts
               ELSE IF loadPromises[p].stage = "primary"
               THEN /\ loadPromises' = [loadPromises EXCEPT ![p].stage = "fallback"]
                    /\ scripts' = Append(scripts, NewScript(p, "fallback"))
               ELSE /\ loadPromises' = [loadPromises EXCEPT ![p].state = "rejected",
                                                            ![p].stage = "threw"]
                    /\ UNCHANGED scripts
  /\ UNCHANGED <<loadedLibraries, loadingPromises, windowGlobal, loadCall>>
  /\ UNCHANGED <<clsVars, ndVars, pdfVars, invVars, fldVars, monVars, psVars, capVars, dpVars, ovVars, upVars>>

\* script.onload: the script has run, and has or has not defined its global yet
Script_Onload ==
  /\ \E s \in 1..Len(scripts), defines \in BOOLEAN :
       /\ scripts[s].net = "loading"
       /\ scripts' = [scripts EXCEPT ![s].net = "loaded", ![s].timeoutId = FALSE,
                                     ![s].checkInterval = scripts[s].settled = "pending",
                                     ![s].giveUp = scripts[s].settled = "pending"]
       /\ windowGlobal' = [windowGlobal EXCEPT ![loadPromises[scripts[s].of].name] = @ \/ defines]
  /\ UNCHANGED <<loadedLibraries, loadingPromises, loadPromises, loadCall>>
  /\ UNCHANGED <<clsVars, ndVars, pdfVars, invVars, fldVars, monVars, psVars, capVars, dpVars, ovVars, upVars>>

\* script.onerror
Script_Onerror ==
  /\ \E s \in 1..Len(scripts) :
       /\ scripts[s].net = "loading"
       /\ scripts' = [scripts EXCEPT ![s] = Settle([@ EXCEPT !.net = "failed", !.timeoutId = FALSE],
                                                   "rejected")]
  /\ UNCHANGED <<loadedLibraries, loadingPromises, loadPromises, windowGlobal, loadCall>>
  /\ UNCHANGED <<clsVars, ndVars, pdfVars, invVars, fldVars, monVars, psVars, capVars, dpVars, ovVars, upVars>>

\* the callback of timeoutId: reject(new Error(`Timeout loading from ${url}`))
LoadScript_Timeout ==
  /\ \E s \in 1..Len(scripts) :
       /\ scripts[s].timeoutId
       /\ scripts' = [scripts EXCEPT ![s] = Settle([@ EXCEPT !.timeoutId = FALSE], "rejected")]
  /\ UNCHANGED <<loadedLibraries, loadingPromises, loadPromises, windowGlobal, loadCall>>
  /\ UNCHANGED <<clsVars, ndVars, pdfVars, invVars, fldVars, monVars, psVars, capVars, dpVars, ovVars, upVars>>

\* the callback of checkInterval, every 50 ms up to the give-up time
CheckInterval_Tick ==
  /\ \E s \in 1..Len(scripts) :
       /\ scripts[s].checkInterval
       /\ (scripts[s].ticks + 1) * PollMs <= GiveUpMs
       /\ scripts' =
            [scripts EXCEPT ![s] =
               IF windowGlobal[loadPromises[scripts[s].of].name]
               THEN Settle([@ EXCEPT !.ticks = @ + 1, !.checkInterval = FALSE], "resolved")
               ELSE [@ EXCEPT !.ticks = @ + 1]]
  /\ UNCHANGED <<loadedLibraries, loadingPromises, loadPromises, windowGlobal, loadCall>>
  /\ UNCHANGED <<clsVars, ndVars, pdfVars, invVars, fldVars, monVars, psVars, capVars, dpVars, ovVars, upVars>>

\* the callback of the 2 s timer of script.onload; the tick due at the same
\* time may run before or after it
GiveUp_Timeout ==
  /\ \E s \in 1..Len(scripts) :
       /\ scripts[s].giveUp
       /\ (scripts[s].ticks + 1) * PollMs >= GiveUpMs
       /\ scripts' =
            [scripts EXCEPT ![s] =
               IF ~windowGlobal[loadPromises[scripts[s].of].name]
               THEN Settle([@ EXCEPT !.giveUp = FALSE, !.checkInterval = FALSE], "rejected")
               ELSE [@ EXCEPT !.giveUp = FALSE, !.checkInterval = FALSE]]
  /\ UNCHANGED <<loadedLibraries, loadingPromises, loadPromises, windowGlobal, loadCall>>
  /\ UNCHANGED <<clsVars, ndVars, pdfVars, invVars, fldVars, monVars, psVars, capVars, dpVars, ovVars, upVars>>

\* a script that ran defines its global later than at its load event
Window_GlobalDefined ==
  /\ \E s \in 1..Len(scripts) :
       /\ scripts[s].net = "loaded"
       /\ ~windowGlobal[loadPromises[scripts[s].of].name]
       /\ windowGlobal' = [windowGlobal EXCEPT ![loadPromises[scripts[s].of].name] = TRUE]
  /\ UNCHANGED <<loadedLibraries, loadingPromises, loadPromises, scripts, loadCall>>
  /\ UNCHANGED <<clsVars, ndVars, pdfVars, invVars, fldVars, monVars, psVars, capVars, dpVars, ovVars, upVars>>

\* no load is called
LlIdle ==
  /\ loadedLibraries = {}
  /\ loadingPromises = [n \in Names |-> NoPromise]
  /\ loadPromises = <<>>
  /\ scripts = <<>>
  /\ windowGlobal = [n \in Names |-> FALSE]
  /\ loadCall = [c \in Callers |-> IdleCaller]

-----------------------------------------------------------------------------
(* DataPersistence (data-persistence.js): states, histories, import, export *)

\* key + '_history' of saveToHistory
HistoryKeyOf(key) == key \o "_history"
\* the key saveRemittanceState / saveInvoiceState and saveRemittanceRecord /
\* saveInvoiceRecord pass on
StateKeyOf(form) ==
  IF form = "remittance" THEN STORAGE_KEYS.REMITTANCE_STATE ELSE STORAGE_KEYS.INVOICE_STATE
\* Object.values(STORAGE_KEYS)
StorageKeyValues ==
  {STORAGE_KEYS.REMITTANCE_STATE, STORAGE_KEYS.REMITTANCE_HISTORY, STORAGE_KEYS.INVOICE_STATE,
   STORAGE_KEYS.INVOICE_HISTORY, STORAGE_KEYS.AUTO_SAVE_ENABLED}
\* every key the class touches
DpKeys ==
  StorageKeyValues \cup
  {HistoryKeyOf(STORAGE_KEYS.REMITTANCE_STATE), HistoryKeyOf(STORAGE_KEYS.INVOICE_STATE)}

\* history.slice(0, 50): Keep only last 50 records
HistoryLimit == 50
\* _handleQuotaExceeded keeps the 10 most recent
QuotaLimit == 10
\* the calls of saveToHistory and of the other methods a behaviour makes
MaxSaves == 51
MaxOps == 2

\* Array.prototype.slice(0, n)
slice_Whole(list, n) == list
slice(list, n) == SubSeq(list, 1, IF Len(list) < n THEN Len(list) ELSE n)

\* getHistory(key, limit = 50): [] when the item is null
DataPersistence_getHistory(storage, key) ==
  IF storage[key] = <<>> THEN <<>> ELSE slice(storage[key][1], HistoryLimit)

\* loadState(key): null (<<>>) when the item is null
loadState(storage, key) == storage[key]

\* _handleQuotaExceeded(): the two history keys are cut to their 10 most recent records
handleQuotaExceeded(storage) ==
  [k \in DOMAIN storage |->
     IF /\ k \in {STORAGE_KEYS.REMITTANCE_HISTORY, STORAGE_KEYS.INVOICE_HISTORY}
        /\ Len(DataPersistence_getHistory(storage, k)) > QuotaLimit
     THEN <<slice(DataPersistence_getHistory(storage, k), QuotaLimit)>>
     ELSE storage[k]]

\* saveState(key, state, debounceMs): the timer after the call
DataPersistence_saveState(enabled, timer, key, st) ==
  IF ~enabled THEN timer ELSE <<[key |-> key, state |-> st]>>

\* saveToHistory(key, record): the storage after the call; quota: setItem throws
\* QuotaExceededError
saveToHistory(storage, key, record, quota) ==
  LET history == DataPersistence_getHistory(storage, HistoryKeyOf(key))
      trimmedHistory == slice(<<record>> \o history, HistoryLimit)
  IN IF quota THEN handleQuotaExceeded(storage)
     ELSE setItem(storage, HistoryKeyOf(key), trimmedHistory)

\* exportAllData(): the object it serialises
exportAllData(storage) ==
  [remittanceState |-> loadState(storage, STORAGE_KEYS.REMITTANCE_STATE),
   remittanceHistory |-> DataPersistence_getHistory(storage, STORAGE_KEYS.REMITTANCE_HISTORY),
   invoiceState |-> loadState(storage, STORAGE_KEYS.INVOICE_STATE),
   invoiceHistory |-> DataPersistence_getHistory(storage, STORAGE_KEYS.INVOICE_HISTORY)]

\* a record of some history, by the time Date.now() it was saved at
HistoryRecord(t) == [_id |-> t]
\* an imported history of n records
ImportedHistory(n) == [i \in 1..n |-> HistoryRecord(1000 + i)]
\* what importData is handed: the parsed object, valid = FALSE when
\* JSON.parse throws; "" and <<>> stand for fields that are missing
Json(remittanceState, remittanceHistory, invoiceState, invoiceHistory) ==
  [valid |-> TRUE, remittanceState |-> remittanceState, remittanceHistory |-> remittanceHistory,
   invoiceState |-> invoiceState, invoiceHistory |-> invoiceHistory]
ImportInputs ==
  {Json("r-imported", <<>>, "i-imported", <<>>),
   Json("r-imported", ImportedHistory(11), "", <<>>),
   Json("", <<>>, "i-imported", ImportedHistory(2)),
   [Json("", <<>>, "", <<>>) EXCEPT !.valid = FALSE]}
\* the states the form of the page hands to saveState
FormStates == {"edited", "edited again"}

\* importData(jsonString): the storage and the timer after the call
importData(storage, enabled, timer, json) ==
  LET t1 == IF json.remittanceState # ""
            THEN DataPersistence_saveState(enabled, timer, STORAGE_KEYS.REMITTANCE_STATE,
                                           json.remittanceState)
            ELSE timer
      s1 == IF json.remittanceHistory # <<>>
            THEN setItem(storage, STORAGE_KEYS.REMITTANCE_HISTORY, json.remittanceHistory)
            ELSE storage
      t2 == IF json.invoiceState # ""
            THEN DataPersistence_saveState(enabled, t1, STORAGE_KEYS.INVOICE_STATE,
                                           json.invoiceState)
            ELSE t1
      s2 == IF json.invoiceHistory # <<>>
            THEN setItem(s1, STORAGE_KEYS.INVOICE_HISTORY, json.invoiceHistory)
            ELSE s1
  IN [storage |-> s2, timer |-> t2]

NoOp == [op |-> "", result |-> <<>>]

DpInit ==
  /\ dpForm \in {"remittance", "invoice"}
  /\ dpStorage = [k \in DpKeys |-> <<>>]
  /\ dpAutoSave = TRUE
  /\ dpTimer = <<>>
  /\ dpRecords = <<>>
  /\ dpOps = 0
  /\ dpLast = NoOp

\* saveRemittanceState(state) / saveInvoiceState(state)
SaveFormState ==
  /\ dpForm # "idle"
  /\ dpOps < MaxOps
  /\ \E st \in FormStates :
       /\ dpTimer' = DataPersistence_saveState(dpAutoSave, dpTimer, StateKeyOf(dpForm), st)
       /\ dpLast' = [op |-> "saveState", result |-> <<st>>]
  /\ dpOps' = dpOps + 1
  /\ UNCHANGED <<dpForm, dpStorage, dpAutoSave, dpRecords>>
  /\ UNCHANGED <<clsVars, ndVars, pdfVars, invVars, fldVars, monVars, psVars, capVars, llVars, ovVars, upVars>>

\* the callback of saveDebounceTimer
SaveState_Callback ==
  /\ dpTimer # <<>>
  /\ \E quota \in BOOLEAN :
       IF quota
       THEN /\ dpStorage' = handleQuotaExceeded(dpStorage)
            /\ dpLast' = [op |-> "QuotaExceededError", result |-> <<>>]
       ELSE /\ dpStorage' = setItem(dpStorage, dpTimer[1].key, SavedState(dpTimer[1].state))
            /\ UNCHANGED dpLast
  /\ dpTimer' = <<>>
  /\ UNCHANGED <<dpForm, dpAutoSave, dpRecords, dpOps>>
  /\ UNCHANGED <<clsVars, ndVars, pdfVars, invVars, fldVars, monVars, psVars, capVars, llVars, ovVars, upVars>>

\* saveRemittanceRecord(record) / saveInvoiceRecord(record); dpRecords keeps
\* the records for which it returned an id, the latest first
SaveRecord ==
  /\ dpForm # "idle"
  /\ Len(dpRecords) < MaxSaves
  /\ \E quota \in BOOLEAN, record \in {HistoryRecord(Len(dpRecords) + 1)} :
       /\ dpStorage' = saveToHistory(dpStorage, StateKeyOf(dpForm), record, quota)
       /\ dpRecords' = IF quota THEN dpRecords ELSE <<record>> \o dpRecords
       /\ dpLast' = [op |-> "saveToHistory", result |-> IF quota THEN <<>> ELSE <<record._id>>]
  /\ UNCHANGED <<dpForm, dpAutoSave, dpTimer, dpOps>>
  /\ UNCHANGED <<clsVars, ndVars, pdfVars, invVars, fldVars, monVars, psVars, capVars, llVars, ovVars, upVars>>

\* exportAllData()
ExportAllData ==
  /\ dpForm # "idle"
  /\ dpOps < MaxOps
  /\ dpLast' = [op |-> "exportAllData", result |-> <<exportAllData(dpStorage)>>]
  /\ dpOps' = dpOps + 1
  /\ UNCHANGED <<dpForm, dpStorage, dpAutoSave, dpTimer, dpRecords>>
  /\ UNCHANGED <<clsVars, ndVars, pdfVars, invVars, fldVars, monVars, psVars, capVars, llVars, ovVars, upVars>>

\* importData(jsonString)
ImportData ==
  /\ dpForm # "idle"
  /\ dpOps < MaxOps
  /\ \E json \in ImportInputs :
       IF ~json.valid
       THEN /\ dpLast' = [op |-> "importData", result |-> <<FALSE>>]
            /\ UNCHANGED <<dpStorage, dpTimer>>
       ELSE \E after \in {importData(dpStorage, dpAutoSave, dpTimer, json)} :
              /\ dpStorage' = after.storage
              /\ dpTimer' = after.timer
              /\ dpLast' = [op |-> "importData", result |-> <<TRUE, json>>]
  /\ dpOps' = dpOps + 1
  /\ UNCHANGED <<dpForm, dpAutoSave, dpRecords>>
  /\ UNCHANGED <<clsVars, ndVars, pdfVars, invVars, fldVars, monVars, psVars, capVars, llVars, ovVars, upVars>>

\* clearAllData()
ClearAllData ==
  /\ dpForm # "idle"
  /\ dpOps < MaxOps
  /\ dpStorage' = [k \in DOMAIN dpStorage |-> IF k \in StorageKeyValues THEN <<>> ELSE dpStorage[k]]
  /\ dpLast' = [op |-> "clearAllData", result |-> <<>>]
  /\ dpOps' = dpOps + 1
  /\ UNCHANGED <<dpForm, dpAutoSave, dpTimer, dpRecords>>
  /\ UNCHANGED <<clsVars, ndVars, pdfVars, invVars, fldVars, monVars, psVars, capVars, llVars, ovVars, upVars>>

\* setAutoSave(enabled)
SetAutoSave ==
  /\ dpForm # "idle"
  /\ dpOps < MaxOps
  /\ \E enabled \in BOOLEAN :
       /\ dpAutoSave' = enabled
       /\ dpStorage' = setItem(dpStorage, STORAGE_KEYS.AUTO_SAVE_ENABLED,
                               IF enabled THEN "true" ELSE "false")
       /\ dpLast' = [op |-> "setAutoSave", result |-> <<enabled>>]
  /\ dpOps' = dpOps + 1
  /\ UNCHANGED <<dpForm, dpTimer, dpRecords>>
  /\ UNCHANGED <<clsVars, ndVars, pdfVars, invVars, fldVars, monVars, psVars, capVars, llVars, ovVars, upVars>>

\* no page uses the class
DpIdle ==
  /\ dpForm = "idle"
  /\ dpStorage = [k \in DpKeys |-> <<>>]
  /\ dpAutoSave = TRUE
  /\ dpTimer = <<>>
  /\ dpRecords = <<>>
  /\ dpOps = 0
  /\ dpLast = NoOp

-----------------------------------------------------------------------------
(* LoadingIndicator (ui-utils.js) under handleFile (remittance form) *)

\* the invocations of handleFile a behaviour makes
Drops == {"d1", "d2", "d3"}

\* this.overlay before _createOverlay
NoOverlay == [created |-> FALSE, hidden |-> TRUE, display |-> "none"]
\* _createOverlay(): className 'loading-overlay hidden', display: flex
createOverlay == [created |-> TRUE, hidden |-> TRUE, display |-> "flex"]

\* show(message): the overlay after the call
show(ov) ==
  [(IF ~ov.created THEN createOverlay ELSE ov) EXCEPT !.hidden = FALSE, !.display = "flex"]

\* hide(): the overlay after the call, and whether a timer was set
hide(ov) == IF ov.created THEN [ov EXCEPT !.hidden = TRUE] ELSE ov
hide_SetsTimer(ov) == ov.created

\* the overlay is in the layout (what its 'hidden' class adds is up to a
\* style sheet that is not part of the sources)
Displayed(ov) == ov.created /\ ov.display = "flex"

OvInit ==
  /\ overlay = NoOverlay
  /\ hideTimers = 0
  /\ ovCall = [d \in Drops |-> "waiting"]

\* handleFile(f) up to its first await: validateFile throws (catch, finally:
\* hide) or the indicator is shown and parser.parseFile is awaited
HandleFile_Start ==
  \E d \in Drops, valid \in BOOLEAN :
    /\ ovCall[d] = "waiting"
    /\ IF valid
       THEN /\ overlay' = show(overlay)
            /\ ovCall' = [ovCall EXCEPT ![d] = "parsing"]
            /\ UNCHANGED hideTimers
       ELSE /\ overlay' = hide(overlay)
            /\ hideTimers' = IF hide_SetsTimer(overlay) THEN hideTimers + 1 ELSE hideTimers
            /\ ovCall' = [ovCall EXCEPT ![d] = "invalid"]
    /\ UNCHANGED <<clsVars, ndVars, pdfVars, invVars, fldVars, monVars, psVars, capVars, llVars, dpVars, upVars>>

\* handleFile(f) after parser.parseFile settled: the rest of try or catch,
\* then finally: hide
HandleFile_Finish ==
  \E d \in Drops, ok \in BOOLEAN :
    /\ ovCall[d] = "parsing"
    /\ overlay' = hide(overlay)
    /\ hideTimers' = IF hide_SetsTimer(overlay) THEN hideTimers + 1 ELSE hideTimers
    /\ ovCall' = [ovCall EXCEPT ![d] = IF ok THEN "done" ELSE "failed"]
    /\ UNCHANGED <<clsVars, ndVars, pdfVars, invVars, fldVars, monVars, psVars, capVars, llVars, dpVars, upVars>>

\* the callback of a timer of hide(), 300 ms after the call
Hide_Timeout ==
  /\ hideTimers > 0
  /\ overlay' = [overlay EXCEPT !.display = "none"]
  /\ hideTimers' = hideTimers - 1
  /\ UNCHANGED ovCall
  /\ UNCHANGED <<clsVars, ndVars, pdfVars, invVars, fldVars, monVars, psVars, capVars, llVars, dpVars, upVars>>

\* no file was dropped
OvIdle ==
  /\ overlay = NoOverlay
  /\ hideTimers = 0
  /\ ovCall = [d \in Drops |-> "none"]

-----------------------------------------------------------------------------
(* upsertInvoice of the two remittance forms, called again and again *)

\* the calls of upsertInvoice a behaviour makes
MaxUpserts == 4

\* the invoice ids handed in: plain, padded, empty
UpsertIds == {"INV-1", " INV-1 ", "INV-2", "INV-2 ", "", "  "}
\* the amounts handed in
UpsertAmounts == {Zero, Int2Num(5), Int2Num(7)}

\* the objects handed to upsertInvoice of part_005
Partials ==
  {[invoice |-> id, date |-> "", applied |-> a, open |-> a, original |-> a,
    hasDiscount |-> FALSE, discount |-> Undefined, description |-> ""] :
     id \in UpsertIds, a \in UpsertAmounts}
\* the objects handed to upsertInvoice of part_004
Part004_Partials ==
  {[invoice |-> id, applied |-> a, open |-> a, date |-> ""] : id \in UpsertIds, a \in UpsertAmounts}

NoUpsert == [id |-> "", present |-> FALSE, rows |-> 0, calls |-> 0]
\* what a call finds: its id, whether a row has that id, the rows so far
UpsertCall(rows, partial, calls) ==
  [id |-> trim(partial.invoice),
   present |-> \E k \in 1..Len(rows) : trim(rows[k].invoice) = trim(partial.invoice),
   rows |-> Len(rows), calls |-> calls + 1]

UpInit ==
  /\ upForm \in {"part_004", "part_005"}
  /\ upInvoices = <<>>
  /\ upLast = NoUpsert

\* upsertInvoice(partial) of part_005 (ui-utils.js holds the same text)
UpsertInvoice ==
  /\ upForm = "part_005"
  /\ upLast.calls < MaxUpserts
  /\ \E partial \in Partials :
       /\ upInvoices' = upsertInvoice(upInvoices, partial)
       /\ upLast' = UpsertCall(upInvoices, partial, upLast.calls)
  /\ UNCHANGED upForm
  /\ UNCHANGED <<clsVars, ndVars, pdfVars, invVars, fldVars, monVars, psVars, capVars, llVars, dpVars, ovVars>>

\* upsertInvoice(partial) of part_004
Part004_UpsertInvoice ==
  /\ upForm = "part_004"
  /\ upLast.calls < MaxUpserts
  /\ \E partial \in Part004_Partials :
       /\ upInvoices' = Part004_upsertInvoice(upInvoices, partial)
       /\ upLast' = UpsertCall(upInvoices, partial, upLast.calls)
  /\ UNCHANGED upForm
  /\ UNCHANGED <<clsVars, ndVars, pdfVars, invVars, fldVars, monVars, psVars, capVars, llVars, dpVars, ovVars>>

\* no form calls upsertInvoice
UpIdle ==
  /\ upForm = "idle"
  /\ upInvoices = <<>>
  /\ upLast = NoUpsert

-----------------------------------------------------------------------------
(* Specifications *)

vars == <<clsVars, ndVars, pdfVars, invVars, fldVars, monVars, psVars, capVars, llVars, dpVars, ovVars, upVars>>

\* one specification per component; the other components stay idle
InitClassify == ClsInit /\ NdIdle /\ PdfIdle /\ InvIdle /\ FldIdle /\ MonIdle /\ PsIdle /\ CapIdle /\ LlIdle /\ DpIdle /\ OvIdle /\ UpIdle
ClsNext == DetectFileType \/ ResolveKind \/ HandleFile_Validate \/ HandleFile_ParseFile
SpecClassify == InitClassify /\ [][ClsNext]_vars

InitDate == NdInit /\ ClsIdle /\ PdfIdle /\ InvIdle /\ FldIdle /\ MonIdle /\ PsIdle /\ CapIdle /\ LlIdle /\ DpIdle /\ OvIdle /\ UpIdle
NdNext == NormalizeDateInvoice \/ NormalizeDateRemit
SpecDate == InitDate /\ [][NdNext]_vars

InitPDF == PdfInit /\ ClsIdle /\ NdIdle /\ InvIdle /\ FldIdle /\ MonIdle /\ PsIdle /\ CapIdle /\ LlIdle /\ DpIdle /\ OvIdle /\ UpIdle
PdfNext ==
  \/ ParsePDF_Open
  \/ ParsePDF_ReadPage
  \/ ParsePDF_CheckText
  \/ PerformOCR_Page
  \/ PerformOCR_Return
  \/ ParsePDF_Parse
  \/ HandleFile_Apply
  \/ HandleFile_Catch
SpecPDF == InitPDF /\ [][PdfNext]_vars

InitInvoice == InvInit /\ ClsIdle /\ NdIdle /\ PdfIdle /\ FldIdle /\ MonIdle /\ PsIdle /\ CapIdle /\ LlIdle /\ DpIdle /\ OvIdle /\ UpIdle
InvNext ==
  \/ ExtractLineItems_Table
  \/ ExtractLineItems_DescriptionFirst
  \/ ExtractLineItems_LineByLine
  \/ IntelligentExtract_Return
  \/ HandleFile_Render
  \/ InvoiceParser_Pattern1
  \/ InvoiceParser_Pattern2
  \/ InvoiceParser_Pattern3
SpecInvoice == InitInvoice /\ [][InvNext]_vars

InitFields == FldInit /\ ClsIdle /\ NdIdle /\ PdfIdle /\ InvIdle /\ MonIdle /\ PsIdle /\ CapIdle /\ LlIdle /\ DpIdle /\ OvIdle /\ UpIdle
FldNext ==
  \/ Extract_Supplier
  \/ Extract_InvoiceId
  \/ Extract_Dates
  \/ Extract_Terms
  \/ Extract_LineItems
  \/ Extract_Total
  \/ Extract_Comments
  \/ Generate_Description
SpecFields == InitFields /\ [][FldNext]_vars

InitMoney == MonInit /\ ClsIdle /\ NdIdle /\ PdfIdle /\ InvIdle /\ FldIdle /\ PsIdle /\ CapIdle /\ LlIdle /\ DpIdle /\ OvIdle /\ UpIdle
MonNext ==
  \/ Money_Parse
  \/ Money_Format
  \/ Money_Reparse
SpecMoney == InitMoney /\ [][MonNext]_vars

InitPersist == PsInit /\ ClsIdle /\ NdIdle /\ PdfIdle /\ InvIdle /\ FldIdle /\ MonIdle /\ CapIdle /\ LlIdle /\ DpIdle /\ OvIdle /\ UpIdle
PsNext ==
  \/ Window_Load
  \/ Input_Payer
  \/ Input_Paydate
  \/ Input_AmountReceived
  \/ Click_Clear
  \/ HandleFile_Captured
  \/ Click_Save
  \/ SaveState_Timeout
  \/ Page_Reload
SpecPersist == InitPersist /\ [][PsNext]_vars

InitUploads == CapInit /\ ClsIdle /\ NdIdle /\ PdfIdle /\ InvIdle /\ FldIdle /\ MonIdle /\ PsIdle /\ LlIdle /\ DpIdle /\ OvIdle /\ UpIdle
CapNext ==
  \/ HandleFile_Begin
  \/ Part004_ParsePDF_Page
  \/ Part004_HandleFile_Render
  \/ Part005_HandleFile_Resume
SpecUploads == InitUploads /\ [][CapNext]_vars

InitLoader == LlInit /\ ClsIdle /\ NdIdle /\ PdfIdle /\ InvIdle /\ FldIdle /\ MonIdle /\ PsIdle /\ CapIdle /\ DpIdle /\ OvIdle /\ UpIdle
LlNext ==
  \/ Load
  \/ Load_Resume
  \/ Load_Return
  \/ LoadLibrary_Resume
  \/ Script_Onload
  \/ Script_Onerror
  \/ LoadScript_Timeout
  \/ CheckInterval_Tick
  \/ GiveUp_Timeout
  \/ Window_GlobalDefined
SpecLoader == InitLoader /\ [][LlNext]_vars
\* timers fire and the continuations of settled promises run; when the
\* network answers and when a script defines its global is left open
SpecLoaderLive ==
  /\ SpecLoader
  /\ WF_vars(Load_Resume) /\ WF_vars(Load_Return) /\ WF_vars(LoadLibrary_Resume)
  /\ WF_vars(LoadScript_Timeout) /\ WF_vars(CheckInterval_Tick) /\ WF_vars(GiveUp_Timeout)

InitStore ==
  DpInit /\ ClsIdle /\ NdIdle /\ PdfIdle /\ InvIdle /\ FldIdle /\ MonIdle /\ PsIdle /\ CapIdle /\ LlIdle /\ OvIdle /\ UpIdle
DpNext ==
  \/ SaveFormState
  \/ SaveState_Callback
  \/ SaveRecord
  \/ ExportAllData
  \/ ImportData
  \/ ClearAllData
  \/ SetAutoSave
SpecStore == InitStore /\ [][DpNext]_vars

InitOverlay ==
  OvInit /\ ClsIdle /\ NdIdle /\ PdfIdle /\ InvIdle /\ FldIdle /\ MonIdle /\ PsIdle /\ CapIdle /\ LlIdle /\ DpIdle /\ UpIdle
OvNext ==
  \/ HandleFile_Start
  \/ HandleFile_Finish
  \/ Hide_Timeout
SpecOverlay == InitOverlay /\ [][OvNext]_vars

InitUpsert ==
  UpInit /\ ClsIdle /\ NdIdle /\ PdfIdle /\ InvIdle /\ FldIdle /\ MonIdle /\ PsIdle /\ CapIdle /\ LlIdle /\ DpIdle /\ OvIdle
UpNext ==
  \/ UpsertInvoice
  \/ Part004_UpsertInvoice
SpecUpsert == InitUpsert /\ [][UpNext]_vars

-----------------------------------------------------------------------------
(* Claims *)

\* the channel the design assigns to an extension, "none" when it lists none
ExtChannel(ext) ==
  CASE ext = "pdf" -> "pdf"
    [] ext \in {"xlsx", "xls", "csv"} -> "spreadsheet"
    [] ext \in {"eml", "msg", "txt"} -> "text"
    [] ext \in {"png", "jpg", "jpeg"} -> "image"
    [] OTHER -> "none"
\* the channel the design assigns to a declared media type
MimeChannel(mime) ==
  IF mime = "application/pdf" THEN "pdf"
  ELSE IF includes(mime, "spreadsheet") \/ includes(mime, "excel") THEN "spreadsheet"
  ELSE IF startsWith(mime, "image/") THEN "image"
  ELSE IF startsWith(mime, "text/") THEN "text"
  ELSE "none"
\* the channel a returned kind stands for
ChannelOf(kind) == IF kind \in {"xlsx", "csv"} THEN "spreadsheet" ELSE kind

\* C6: the classifier decides by extension first: when the extension names a
\* channel the classifier routes, that channel is returned whatever the
\* declared media type says.
C6_ExtensionDecidesFirst ==
  LET ext == getExtension(clsFile.name)
  IN /\ clsPc = "detected" /\ ext \in {"pdf", "xlsx", "xls", "csv"}
          => clsError = "" /\ ChannelOf(clsKind) = ExtChannel(ext)
     /\ clsPc = "resolved" /\ ext \in {"pdf", "png", "jpg", "jpeg", "eml", "msg", "txt"}
          => clsError = "" /\ ChannelOf(clsKind) = ExtChannel(ext)

\* C7: classification throws exactly when neither the extension nor the media
\* type is a supported one, and returns one of pdf, spreadsheet, text, image
\* for every input whose extension or media type is supported.
C7_FailsExactlyWhenUnsupported ==
  LET ext == getExtension(clsFile.name)
      mime == toLowerCase(clsFile.type)
  IN clsPc \in {"detected", "resolved"} =>
       IF ExtChannel(ext) # "none" \/ MimeChannel(mime) # "none"
       THEN clsError = "" /\ ChannelOf(clsKind) \in {"pdf", "spreadsheet", "text", "image"}
       ELSE clsError # ""

IsDigits(s) == \A i \in 1..Len(s) : SubSeq(s, i, i) \in Digit
IsLeapYear(y) == (y % 4 = 0 /\ y % 100 # 0) \/ y % 400 = 0
DaysInMonth(y, m) ==
  IF m = 2 THEN (IF IsLeapYear(y) THEN 29 ELSE 28)
  ELSE IF m \in {4, 6, 9, 11} THEN 30 ELSE 31
\* s is YYYY-MM-DD and names a day of the calendar
IsCalendarDate(s) ==
  /\ Len(s) = 10
  /\ SubSeq(s, 5, 5) = "-" /\ SubSeq(s, 8, 8) = "-"
  /\ IsDigits(SubSeq(s, 1, 4)) /\ IsDigits(SubSeq(s, 6, 7)) /\ IsDigits(SubSeq(s, 9, 10))
  /\ LET y == ParseDigits(SubSeq(s, 1, 4))
         m == ParseDigits(SubSeq(s, 6, 7))
         d == ParseDigits(SubSeq(s, 9, 10))
     IN m \in 1..12 /\ d \in 1..DaysInMonth(y, m)

\* C5: normalizeDate returns the empty string or a YYYY-MM-DD string with a
\* month in 01..12 and a day that exists in that month.
C5_NormalizeDateValid ==
  ndPc \in {"invoice", "remit"} => ndOut = "" \/ IsCalendarDate(ndOut)

\* the text the text layer of a document holds: the fragments of a page joined
\* by spaces, a line per page
RECURSIVE PagesText(_)
PagesText(pages) ==
  IF pages = <<>> THEN "" ELSE JoinSpace(Head(pages)) \o "\n" \o PagesText(Tail(pages))
\* the characters text-layer extraction yields, surrounding white space aside
ExtractedLength(doc) == Len(trim(PagesText(doc.pages)))
RECURSIVE FragmentCount(_)
FragmentCount(pages) == IF pages = <<>> THEN 0 ELSE Len(Head(pages)) + FragmentCount(Tail(pages))
\* parsePDF is past its decision on the OCR fallback
OcrDecided == pdfPc \in {"ocrLoop", "parse", "returned", "catch", "done"}

RECURSIVE RecognisedLength(_)
RecognisedLength(scan) ==
  IF scan = <<>> THEN 0 ELSE Len(Head(scan)) + RecognisedLength(Tail(scan))

\* C8: when parsePDF returns a record after the OCR fallback was entered, the
\* OCR engine was available and recognised at least one character; every other
\* OCR run ends parsePDF with an error.
C8_OcrFailureEndsWithError ==
  (ocrCalled /\ pdfPc = "returned") => (Tesseract /\ RecognisedLength(pdfDoc.scan) > 0)

\* the Error in flight was raised by the OCR fallback path of parsePDF
OcrPathError ==
  ocrCalled /\ \E m \in {"Tesseract.js library not loaded"} \cup RecognizeErrors :
                 pdfError = OcrFailure(m)

\* C9: every error raised by the OCR fallback path is shown to the user as
\* OCR_FAILED.
C9_OcrErrorsShownAsOcrFailed ==
  (pdfPc = "done" /\ OcrPathError) => shown = "OCR_FAILED"

\* the parse result carries a non-empty header field
HasHeaderField(r) ==
  r.paymentNumber # "" \/ r.paymentDate # "" \/ r.vendor # "" \/ r.customer # ""

\* C10: the no-data error is shown only for a result without invoices and
\* without header fields, and a result with a header field but no invoices is
\* applied to the form without an error.
C10_NoDataOnlyWhenEmpty ==
  pdfPc = "done" =>
    /\ shown = "NO_DATA_FOUND" => (Len(pdfResult.invoices) = 0 /\ ~HasHeaderField(pdfResult))
    /\ (Len(pdfResult.invoices) = 0 /\ HasHeaderField(pdfResult)) =>
         (shown = "" /\ state.date = pdfResult.paymentDate)

\* extractLineItems has returned its items
ItemsReturned == invPc \in {"extracted", "parsed", "rendered", "returned"}

\* |quantity * unitPrice - amount| <= max(0.1 * (quantity * unitPrice), 1.00)
WithinTolerance(item) ==
  LET calculated == Mul(item.quantity, item.unitPrice)
  IN Leq(MathAbs(Sub(calculated, item.amount)),
         MathMax(Mul(Rat(1, 10), calculated), Int2Num(1)))

\* C2: every line item extractLineItems returns, whichever strategy pushed
\* it, satisfies the quantity * unitPrice ~ amount tolerance.
C2_ReturnedItemsWithinTolerance ==
  ItemsReturned => \A k \in 1..Len(items) : WithinTolerance(items[k])

\* the order in which a parser tries its strategies
StrategyOrder ==
  IF invParser = "enhanced" THEN <<"table", "descriptionFirst", "lineByLine">>
  ELSE <<"pattern1", "pattern2", "pattern3">>

\* C3: the strategies run so far are an initial part of the fixed order, each
\* one before the last pushed nothing, and once extractLineItems has returned
\* the last one run is the first that pushed an item (or the final strategy)
\* and every returned item comes from it.
C3_FirstStrategyWins ==
  LET n == Len(attempted)
  IN /\ n <= Len(StrategyOrder)
     /\ \A k \in 1..n : attempted[k].strategy = StrategyOrder[k]
     /\ \A k \in 1..(n - 1) : attempted[k].pushed = 0
     /\ ItemsReturned =>
          /\ n >= 1
          /\ n < Len(StrategyOrder) => attempted[n].pushed > 0
          /\ Len(items) = attempted[n].pushed
          /\ \A k \in 1..Len(items) : itemOrigin[k] = attempted[n].strategy

\* C3: the tabular strategy pushed an item, extractLineItems returned it and
\* ran no other strategy.
C3_Witness ==
  /\ ItemsReturned /\ invParser = "enhanced"
  /\ Len(attempted) = 1 /\ attempted[1].pushed > 0
  /\ extractLineByLine(splitLines(invText)) # <<>>

\* a word that announces an explicit total
ExplicitTotalWords == {"total", "please pay", "amount due"}
NoExplicitTotal(text) == \A w \in ExplicitTotalWords : ~includes(toLowerCase(text), w)
RECURSIVE SumOfAmounts(_)
SumOfAmounts(lineItems) ==
  IF lineItems = <<>> THEN Zero ELSE Add(Head(lineItems).amount, SumOfAmounts(Tail(lineItems)))

\* C4: when the text holds no explicit total, the totalAmount of the record
\* intelligentExtract returns, and of the form state filled from it, is the
\* sum of the amount fields of the returned line items.
C4_TotalIsSumOfAmounts ==
  (invParser = "enhanced" /\ NoExplicitTotal(invText)) =>
    /\ invPc \in {"parsed", "rendered"} => invResult.totalAmount = SumOfAmounts(invResult.lineItems)
    /\ invPc = "rendered" => invState.totalAmount = SumOfAmounts(invResult.lineItems)

\* the rules of a date field that match and whose capture normalizes
NormalizingRules(patterns, text, parser) ==
  {k \in 1..Len(patterns) : NormalizedCapture(patterns[k], text, parser) # ""}
\* a date field is empty only when no rule matches and normalizes, and is
\* otherwise the normalized capture of such a rule
FieldFromNormalizingRule(field, patterns, text, parser) ==
  LET good == NormalizingRules(patterns, text, parser)
  IN IF good = {} THEN field = ""
     ELSE \E k \in good : field = NormalizedCapture(patterns[k], text, parser)

\* C11: a candidate date that does not normalize is passed over for the next
\* rule: the invoice date and the due date a parser returns are empty only
\* if no rule of the field matches and normalizes.
C11_DateRulesFallThrough ==
  fldPc \in {"terms", "lineItems", "total", "comments", "description", "done"} =>
    IF fldParser = "enhanced"
    THEN /\ FieldFromNormalizingRule(fldResult.invoiceDate, invDatePatterns, fldText, "enhanced")
         /\ FieldFromNormalizingRule(fldResult.dueDate, enhancedDuePatterns, fldText, "enhanced")
    ELSE /\ FieldFromNormalizingRule(fldResult.invoiceDate, datePatterns, fldText, "basic")
         /\ FieldFromNormalizingRule(fldResult.dueDate, duePatterns, fldText, "basic")

\* the lines of the text an item's description is taken from
CandidateLines(text, item) ==
  {k \in 1..Len(splitLines(text)) : includes(splitLines(text)[k], item.description)}

\* C12: no line item a line-item strategy of EnhancedInvoiceParser returns
\* comes from a candidate line that contains a header/footer keyword: each
\* returned item has a candidate line that isHeaderOrFooter rejects.
C12_NoItemFromBlacklistedLine ==
  (ItemsReturned /\ invParser = "enhanced") =>
    \A k \in 1..Len(items) :
      \E c \in CandidateLines(invText, items[k]) : ~isHeaderOrFooter(splitLines(invText)[c])

\* the closed vocabulary of terms: NET n, NET n DAYS, C.O.D., due on/upon receipt
TermsVocabulary ==
  LET Dot == Cls({"."}, 0, 1)
  IN IgnoreCase(<<Alt(<<<<Lit("NET"), Ws0, Cls(Digit, 1, -1), Opt(<<Ws1, Lit("DAYS")>>)>>,
                        <<Lit("C"), Dot, Lit("O"), Dot, Lit("D"), Dot>>,
                        <<Lit("DUE "), Alt(<<<<Lit("ON")>>, <<Lit("UPON")>>>>), Lit(" RECEIPT")>>>>)>>)
InVocabulary(terms) == matchI(<<Bol(FALSE)>> \o TermsVocabulary \o <<Eol(FALSE)>>, terms).ok
HasVocabularyForm(text) == matchI(TermsVocabulary, text).ok

\* C13: the terms a parser returns are empty or a member of the closed
\* vocabulary, and they are not empty when the text holds a form of the
\* vocabulary.
C13_TermsInClosedVocabulary ==
  fldPc \in {"lineItems", "total", "comments", "description", "done"} =>
    /\ fldResult.netTerms = "" \/ InVocabulary(fldResult.netTerms)
    /\ HasVocabularyForm(fldText) => fldResult.netTerms # ""

\* a string with numeric content
HasDigit(s) == \E i \in 1..Len(s) : SubSeq(s, i, i) \in Digit

\* C14: parsing a money string, formatting the value as currency text and
\* parsing that text again yields the value parsed first.
C14_FormatParseRoundTrip ==
  (monPc = "reparsed" /\ monInput.t = "string" /\ HasDigit(monInput.s) /\ isFinite(monValue)) =>
    monAgain = monValue

\* a value parseMoney may return: a number that is neither NaN nor negative
IsAmount(v) == isFinite(v) /\ v.n >= 0

\* C15: parseMoney returns a non-negative number, never NaN, and 0 for an
\* input without numeric content.
C15_ParseMoneyNonNegative ==
  monPc \in {"parsed", "formatted", "reparsed"} =>
    /\ IsAmount(monValue)
    /\ (monInput.t = "string" /\ ~HasDigit(monInput.s)) => monValue = Zero

\* the text performOCR builds from the pages it recognised
RECURSIVE ScanText(_)
ScanText(scan) == IF scan = <<>> THEN "" ELSE Head(scan) \o "\n" \o ScanText(Tail(scan))

\* C16: the pages of a document are processed one after the other: in either
\* page loop the accumulated text is the text of the pages before pageNum, in
\* page order; the OCR loop runs only with the text layer of every page read;
\* and the text handed to the template parsers is the concatenation of the
\* per-page texts.
C16_PagesInSequence ==
  /\ pdfPc = "textLoop" =>
       /\ pageNum \in 1..(Len(pdfDoc.pages) + 1)
       /\ fullText = PagesText(SubSeq(pdfDoc.pages, 1, pageNum - 1))
  /\ pdfPc = "ocrLoop" =>
       /\ pageNum \in 1..(Len(pdfDoc.pages) + 1)
       /\ textLayer = PagesText(pdfDoc.pages)
       /\ fullText = ScanText(SubSeq(pdfDoc.scan, 1, pageNum - 1))
  /\ pdfPc \in {"parse", "returned"} =>
       fullText = IF ocrCalled THEN ScanText(pdfDoc.scan) ELSE PagesText(pdfDoc.pages)

\* C16: performOCR has returned the text of two pages that differ
C16_Witness ==
  /\ pdfPc = "parse" /\ ocrCalled
  /\ Len(pdfDoc.scan) = 2 /\ pdfDoc.scan[1] # pdfDoc.scan[2]
  /\ fullText = pdfDoc.scan[1] \o "\n" \o pdfDoc.scan[2] \o "\n"

\* the templates in registration order, each with its signature keywords
Templates ==
  <<[name |-> "meyer", vendor |-> "Meyer Distributing", keywords |-> {"meyer", "distributing"}],
    [name |-> "turn5", vendor |-> "Turn 5, Inc.", keywords |-> {"turn 5"}],
    [name |-> "orw", vendor |-> "ORW USA, INC.", keywords |-> {"orw usa"}]>>
\* the templates whose signature keywords are all present in the text
Matching(text) ==
  {k \in 1..Len(Templates) : \A w \in Templates[k].keywords : includes(toLowerCase(text), w)}

\* C17: the record parsePDF returns is that of the first template, in the
\* order meyer, turn5, orw, whose keywords are all present in the lower-cased
\* text, whichever later signatures match too, and that of the generic
\* template exactly when no signature matches.
C17_FirstTemplateWins ==
  pdfPc = "returned" =>
    LET hits == Matching(fullText)
    IN /\ hits = {} <=> pdfResult.vendor = ""
       /\ \A k \in hits : (\A j \in hits : k <= j) =>
            /\ detectPDFFormat(fullText) = Templates[k].name
            /\ pdfResult.vendor = Templates[k].vendor

\* C17: parsePDF returned for a text that carries all three signatures
C17_Witness ==
  /\ pdfPc = "returned"
  /\ Matching(fullText) = {1, 2, 3}
  /\ pdfResult.vendor = "Meyer Distributing"

\* no pattern of a cascade matches the text
NoRuleMatches(patterns, text) == \A k \in 1..Len(patterns) : ~MatchPat(patterns[k], text).ok

\* the cascades of a parser's header fields
HeaderRules(parser) ==
  IF parser = "enhanced"
  THEN [invoiceId |-> enhancedInvoiceIdPatterns, invoiceDate |-> invDatePatterns,
        dueDate |-> enhancedDuePatterns, netTerms |-> enhancedTermsPatterns]
  ELSE [supplier |-> supplierPatterns, invoiceId |-> invoiceIdPatterns,
        invoiceDate |-> datePatterns, dueDate |-> duePatterns, netTerms |-> termsPatterns]
NoTotalRuleMatches(parser, text) ==
  IF parser = "enhanced" THEN \A k \in 1..Len(totalPatterns) : ~matchI(totalPatterns[k], text).ok
  ELSE NoRuleMatches(parseInvoiceText_totalPatterns, text)

\* a number that is set: not undefined
IsNumber(v) == v.d >= 0
IsItem(item) ==
  /\ item.description \in STRING
  /\ IsNumber(item.quantity) /\ IsNumber(item.unitPrice) /\ IsNumber(item.amount)

\* C18: extraction never raises and returns a complete record: a header field
\* none of whose rules matches is the empty string, totalAmount is 0 when no
\* total rule matches, lineItems and comments are lists, and no field is null
\* or undefined.
C18_CompleteRecordNeverRaises ==
  /\ fldPc # "threw"
  /\ fldPc = "done" =>
       /\ DOMAIN fldResult = DOMAIN EmptyInvoiceResult
       /\ \A f \in {"supplier", "invoiceId", "invoiceDate", "dueDate", "netTerms", "description"} :
            fldResult[f] \in STRING
       /\ \A f \in DOMAIN HeaderRules(fldParser) :
            NoRuleMatches(HeaderRules(fldParser)[f], fldText) => fldResult[f] = ""
       /\ IsNumber(fldResult.totalAmount) /\ ~isNaN(fldResult.totalAmount)
       /\ NoTotalRuleMatches(fldParser, fldText) => fldResult.totalAmount = Zero
       /\ DOMAIN fldResult.lineItems = 1..Len(fldResult.lineItems)
       /\ \A k \in 1..Len(fldResult.lineItems) : IsItem(fldResult.lineItems[k])
       /\ DOMAIN fldResult.comments = 1..Len(fldResult.comments)
       /\ \A k \in 1..Len(fldResult.comments) : fldResult.comments[k] \in STRING

\* C18: a text that is not empty and that no rule of any field matches has
\* been parsed to the end
C18_Witness ==
  /\ fldPc = "done" /\ fldText # ""
  /\ \A f \in DOMAIN HeaderRules(fldParser) : NoRuleMatches(HeaderRules(fldParser)[f], fldText)
  /\ NoTotalRuleMatches(fldParser, fldText)
  /\ fldResult = EmptyInvoiceResult

\* C19: nothing is written to the browser's local storage before the user has asked for a
\* save: as long as the Record Payment button has not been clicked, uploads, edits and renders
\* leave the stored state and the stored history empty
C19_NoWriteWithoutSave ==
  ~saveRequested =>
    /\ localStorage[STORAGE_KEYS.REMITTANCE_STATE] = <<>>
    /\ localStorage[historyKey] = <<>>

\* the state the form holds when it has handled this file and nothing else
StateFromAlone(form, file) ==
  IF form = "part_004" THEN Part004_parsePDF(Part004_initialState, Part004_text(file))
  ELSE ApplyResult(parseByFormat(Part005_text(file)))

\* the invocations of handleFile that have applied their file
Applied == {c \in Calls : capCall[c].pc = "done"}

\* C20: once the invocations of handleFile have ended, the payer, the date, the amount
\* received and the invoice rows of the form are those of one of the files applied, as if the
\* form had handled that file alone
C20_StateFromOneFile ==
  (Applied # {} /\ \A c \in Calls : capCall[c].pc \in {"done", "failed"}) =>
    \E c \in Applied : capState = StateFromAlone(capForm, capCall[c].file)

-----------------------------------------------------------------------------
(* Invoice id: the reject predicate of the cascade *)

\* a capture that looks like a date: one or two digits, a slash or dash, one
\* or two digits at its start
LooksLikeDate(id) ==
  match(<<Bol(FALSE), Cls(Digit, 1, 2), Cls({"/", "-"}, 1, 1), Cls(Digit, 1, 2)>>, id).ok
\* a capture that is a bare year: two digits, or 19 or 20 and two digits, and
\* nothing else
LooksLikeBareYear(id) ==
  \/ match(<<Bol(FALSE), Cls(Digit, 2, 2), Eol(FALSE)>>, id).ok
  \/ match(<<Bol(FALSE), Alt(<<<<Lit("20")>>, <<Lit("19")>>>>), Cls(Digit, 2, 2), Eol(FALSE)>>,
           id).ok
RejectedId(id) ==
  LooksLikeDate(id) \/ LooksLikeBareYear(id) \/ Len(id) < 4 \/ Len(id) > 30
\* the capture of the first pattern, in priority order, that matches and whose
\* capture is not rejected; '' when there is none
FirstUnrejectedId(text) ==
  The({LET Id(k) == trim(Group(text, ms[k], 1))
           k == FirstRule({j \in 1..Len(enhancedInvoiceIdPatterns) :
                             ms[j].ok /\ Group(text, ms[j], 1) # "" /\ ~RejectedId(Id(j))})
       IN IF k = 0 THEN "" ELSE Id(k) :
         ms \in {MatchEach(enhancedInvoiceIdPatterns, text)}})

\* C21: the invoice id extractInvoiceId returns is the capture of the first
\* pattern whose capture is not rejected, a capture being rejected exactly
\* when it looks like a date or a bare year or has fewer than 4 or more than
\* 30 characters; it is '' only when no pattern yields such a capture.
C21_FirstUnrejectedCapture ==
  (fldParser = "enhanced" /\ fldPc \notin {"idle", "supplier", "invoiceId"}) =>
    fldResult.invoiceId = FirstUnrejectedId(fldText)

-----------------------------------------------------------------------------
(* LibraryLoader: one load at a time, every load settles *)

\* the _loadLibrary promises and the _loadScript promises that are pending
PendingLoads(name) ==
  {p \in 1..Len(loadPromises) : loadPromises[p].name = name /\ loadPromises[p].state = "pending"}
ScriptsInFlight(name) ==
  {s \in 1..Len(scripts) :
     loadPromises[scripts[s].of].name = name /\ scripts[s].settled = "pending"}
\* the calls of load(name) that wait for a pending load
WaitingFor(name) ==
  {c \in Callers : /\ loadCall[c].pc \in {"awaiting", "waiting"}
                   /\ loadCall[c].name = name
                   /\ loadPromises[loadCall[c].promise].state = "pending"}

\* C22: at every step, for every name, at most one load and at most one of
\* its script loads is pending, every call that waits for a pending load
\* waits on the promise loadingPromises holds for the name, and once the name
\* is in loadedLibraries no step appends another script.
C22_OneLoadInFlight ==
  [][\A name \in Names :
       /\ Cardinality(PendingLoads(name)') <= 1
       /\ Cardinality(ScriptsInFlight(name)') <= 1
       /\ \A c \in WaitingFor(name)' : loadCall'[c].promise = loadingPromises'[name].p
       /\ name \in loadedLibraries => Len(scripts') = Len(scripts)]_vars

\* a call that found the load of another call pending has resolved with it,
\* with one script appended in all
C22_Witness ==
  \E c, d \in Callers :
    /\ loadCall[c].how = "started" /\ loadCall[c].pc = "resolved"
    /\ loadCall[d].how = "shared" /\ loadCall[d].pc = "resolved"
    /\ Len(scripts) = 1

\* C23: every call of load that waits eventually resolves or rejects, and
\* every entry of loadingPromises is eventually removed.
C23_EveryLoadSettles ==
  /\ \A c \in Callers :
       (loadCall[c].pc \in {"awaiting", "waiting"}) ~> (loadCall[c].pc \in {"resolved", "rejected"})
  /\ \A name \in Names : has(loadingPromises, name) ~> ~has(loadingPromises, name)

-----------------------------------------------------------------------------
(* DataPersistence: imported states, history order, history keys *)

\* importData returned true for a json with both states, auto-save is on,
\* nothing was called since, no write failed and no callback is pending
ImportedBoth ==
  /\ dpLast.op = "importData" /\ dpLast.result[1]
  /\ dpLast.result[2].remittanceState # "" /\ dpLast.result[2].invoiceState # ""
  /\ dpAutoSave
  /\ dpTimer = <<>>

\* C24: once the callbacks of an importData that returned true for a json
\* with both states have run, the remittance state key and the invoice state
\* key hold the imported states.
C24_BothImportedStatesSaved ==
  ImportedBoth =>
    /\ dpStorage[STORAGE_KEYS.REMITTANCE_STATE] = <<SavedState(dpLast.result[2].remittanceState)>>
    /\ dpStorage[STORAGE_KEYS.INVOICE_STATE] = <<SavedState(dpLast.result[2].invoiceState)>>

\* the history stored for the form of the page
StoredHistory == DataPersistence_getHistory(dpStorage, HistoryKeyOf(StateKeyOf(dpForm)))
\* the 50 latest of the records saved
LatestRecords == SubSeq(dpRecords, 1, IF Len(dpRecords) < 50 THEN Len(dpRecords) ELSE 50)

\* C25: the history stored for a key holds at most 50 records, and they are
\* the latest records saved, the latest first.
C25_HistoryLatestFirstAtMost50 ==
  dpForm # "idle" =>
    /\ dpStorage[HistoryKeyOf(StateKeyOf(dpForm))] # <<>> =>
         Len(dpStorage[HistoryKeyOf(StateKeyOf(dpForm))][1]) <= 50
    /\ StoredHistory = LatestRecords

\* more than 50 records were saved: the oldest is gone, the latest is in front
C25_Witness ==
  /\ Len(dpRecords) > 50
  /\ Len(StoredHistory) = 50
  /\ StoredHistory[1] = dpRecords[1]
  /\ dpLast.op = "saveToHistory" /\ dpLast.result # <<>>

\* the history exportAllData returned for the form of the page
ExportedHistory ==
  IF dpForm = "remittance" THEN dpLast.result[1].remittanceHistory
  ELSE dpLast.result[1].invoiceHistory

\* C26: exportAllData returns the records saved through saveRemittanceRecord
\* or saveInvoiceRecord (the 50 latest), and after clearAllData none of them
\* is stored.
C26_HistoryExportedAndCleared ==
  /\ dpLast.op = "exportAllData" =>
       \A i \in 1..Len(LatestRecords) :
         \E j \in 1..Len(ExportedHistory) : ExportedHistory[j] = LatestRecords[i]
  /\ dpLast.op = "clearAllData" => StoredHistory = <<>>

-----------------------------------------------------------------------------
(* LoadingIndicator: the overlay while a capture runs *)

\* an invocation of handleFile has shown the indicator and awaits its parser
CaptureInProgress == \E d \in Drops : ovCall[d] = "parsing"

\* C27: while an invocation of handleFile is between its show() and its
\* hide(), the overlay is displayed.
C27_DisplayedWhileCapturing == CaptureInProgress => Displayed(overlay)

-----------------------------------------------------------------------------
(* upsertInvoice: one row per invoice id *)

\* C28: after any sequence of upsertInvoice calls from the empty state no two
\* rows of state.invoices have the same invoice id, and a call whose id a row
\* already had leaves the number of rows as it was.
C28_OneRowPerInvoice ==
  /\ \A i, j \in 1..Len(upInvoices) :
       i # j => trim(upInvoices[i].invoice) # trim(upInvoices[j].invoice)
  /\ upLast.present => Len(upInvoices) = upLast.rows

\* part_004 after a padded id met the row of the plain id: the row now holds
\* the padded id, and a later call with an id present appended no row
C28_Witness ==
  /\ upForm = "part_004"
  /\ Len(upInvoices) = 2
  /\ \E k \in 1..2 : upInvoices[k].invoice # trim(upInvoices[k].invoice)
  /\ upLast.present /\ upLast.rows = 2

-----------------------------------------------------------------------------
(* validateFile and detectFileType *)

\* C29: a file validateFile accepted is classified by detectFileType without
\* an 'Unknown file type' error.
C29_AcceptedFilesAreRouted ==
  clsPc = "routed" => clsError = "" /\ clsKind \in {"pdf", "xlsx", "csv"}

-----------------------------------------------------------------------------
(* EnhancedInvoiceParser.extractLineItems: quantities and unit prices *)

\* C30: every line item EnhancedInvoiceParser.extractLineItems returns has a
\* finite unit price that is not negative and a quantity above zero.
C30_ItemsHaveSoundNumbers ==
  (invParser = "enhanced" /\ invPc \in {"extracted", "parsed", "rendered"}) =>
    \A k \in 1..Len(items) :
      /\ isFinite(items[k].unitPrice)
      /\ Leq(Zero, items[k].unitPrice)
      /\ Less(Zero, items[k].quantity)

====
